---- MODULE Spec2Model ----
(***************************************************************************)
(* Signal detection and trigger evaluation of the agentic_setup            *)
(* repository: AgentDetector (scripts/agent_detector.py) and               *)
(* CopilotProjectAnalyzer (github-copilot/scripts/analyze_project.py).     *)
(*                                                                         *)
(* Python str values are TLA+ strings; a path below the root is the        *)
(* sequence of its components; a repository tree is the set of its regular *)
(* files (directories are the proper prefixes of the file paths).          *)
(***************************************************************************)
EXTENDS Integers, Sequences, FiniteSets, TLC

VARIABLES
    tool,                \* which class was constructed: "detector", "copilot",
                         \* "installer" or "apm"
    repo_path,           \* str(self.repo_path): the resolved root
    tree,                \* the filesystem below the root
    git,                 \* what the version-control tool answers in the root
    detected_languages,  \* self.detected_languages (Counter)
    detected_frameworks, \* self.detected_frameworks (set)
    detected_patterns,   \* self.detected_patterns (set)
    file_count,          \* self.file_count
    line_count,          \* self.line_count (AgentDetector only)
    contributors,        \* self.contributors (AgentDetector only)
    runs,                \* number of detect()/analyze()/update_gitignore() calls
                         \* made on the object
    pc,                  \* "idle", "evaluate": detect() has run its collectors,
                         \* or "reported": main() has built the report
    outcome,             \* of the last call: "none", "returned" or "raised"
    collectors_run,      \* the collectors the last call executed, in order
    enabled_agents,      \* first component of detect()'s result
    reasons,             \* second component of detect()'s result
    recommended,         \* analyze()'s "recommended_agents"
    first,               \* what the first call on the object returned
    report,              \* the lines generate_report returned, <<>> before
    host,                \* the machine an installer runs on
    timestamp,           \* MultiAgentFrameworkInstaller: self.timestamp
    AGENTS,              \* self.AGENTS, the class attribute until it is assigned
    installer_enabled_agents, \* self.enabled_agents of the installer
    agent_reasons,       \* self.agent_reasons
    response,            \* detect_agents: the answer as typed, "" before
    step,                \* run(): the number of the step the loop is at
    run_result,          \* run(): "running", "True", "False", or "raised"
    executed,            \* run(): the names of the steps called so far
    last,                \* run(): how the last step called ended
    created              \* the directories and files the installer has made

vars == <<tool, repo_path, tree, git, detected_languages, detected_frameworks,
          detected_patterns, file_count, line_count, contributors, runs, pc,
          outcome, collectors_run, enabled_agents, reasons, recommended, first,
          report, host, timestamp, AGENTS, installer_enabled_agents,
          agent_reasons, response, step, run_result, executed, last, created>>

\* the state of a MultiAgentFrameworkInstaller and of its machine
installer_vars == <<host, timestamp, AGENTS, installer_enabled_agents, agent_reasons,
                    response, step, run_result, executed, last, created>>

---------------------------------------------------------------------------
(* Bounds of the model.                                                    *)

\* at most this many listed files in a tree (besides the bulk files)
MaxFiles == 2
\* at most this many distinct commit authors in the history
MaxAuthors == 3
\* at most this many detect()/analyze()/update_gitignore() calls on one
\* object
MaxRuns == 2
\* at most this many lines in a .gitignore handed to update_gitignore()
MaxLines == 2

---------------------------------------------------------------------------
(* Python str operations.                                                  *)

\* `sub in s`
Contains(sub, s) ==
    \E i \in 1..(Len(s) - Len(sub) + 1) : SubSeq(s, i, i + Len(sub) - 1) = sub

\* s.endswith(suffix)
EndsWith(s, suffix) ==
    /\ Len(suffix) <= Len(s)
    /\ SubSeq(s, Len(s) - Len(suffix) + 1, Len(s)) = suffix

UpperLetters == <<"A","B","C","D","E","F","G","H","I","J","K","L","M",
                  "N","O","P","Q","R","S","T","U","V","W","X","Y","Z">>
LowerLetters == <<"a","b","c","d","e","f","g","h","i","j","k","l","m",
                  "n","o","p","q","r","s","t","u","v","w","x","y","z">>

UpperSet == {UpperLetters[i] : i \in 1..26}
LowerSet == {LowerLetters[i] : i \in 1..26}
ToLower == [c \in UpperSet |-> LowerLetters[CHOOSE i \in 1..26 : UpperLetters[i] = c]]
ToUpper == [c \in LowerSet |-> UpperLetters[CHOOSE i \in 1..26 : LowerLetters[i] = c]]

IsUpper(c) == c \in UpperSet
IsLower(c) == c \in LowerSet
LowerChar(c) == IF IsUpper(c) THEN ToLower[c] ELSE c
UpperChar(c) == IF IsLower(c) THEN ToUpper[c] ELSE c

RECURSIVE Lower(_)
\* s.lower()
Lower(s) ==
    IF Len(s) = 0 THEN ""
    ELSE LowerChar(SubSeq(s, 1, 1)) \o Lower(SubSeq(s, 2, Len(s)))

RECURSIVE TitleFrom(_, _)
TitleFrom(s, afterLetter) ==
    IF Len(s) = 0 THEN ""
    ELSE LET c == SubSeq(s, 1, 1)
         IN  (IF afterLetter THEN LowerChar(c) ELSE UpperChar(c))
                 \o TitleFrom(SubSeq(s, 2, Len(s)), IsUpper(c) \/ IsLower(c))

\* s.title(): a letter is upper-cased after a non-letter, lower-cased after a letter
Title(s) == TitleFrom(s, FALSE)

RECURSIVE SplitFrom(_, _, _, _)
\* the pieces of s from position start on, the scan being at position i
SplitFrom(s, sep, start, i) ==
    IF i > Len(s) THEN <<SubSeq(s, start, Len(s))>>
    ELSE IF SubSeq(s, i, i) = sep
    THEN <<SubSeq(s, start, i - 1)>> \o SplitFrom(s, sep, i + 1, i + 1)
    ELSE SplitFrom(s, sep, start, i + 1)

\* s.split(sep) for a one-character separator
Split(s, sep) == SplitFrom(s, sep, 1, 1)

RECURSIVE JoinPath(_)
\* the components of a path joined by "/"
JoinPath(p) ==
    IF Len(p) = 0 THEN ""
    ELSE IF Len(p) = 1 THEN p[1]
    ELSE p[1] \o "/" \o JoinPath(Tail(p))

\* the ASCII characters that occur in the names of agents, frameworks and
\* pattern tags, in code-point order
Ascii ==
    " #$%&()*+,-./0123456789:;<=>?@ABCDEFGHIJKLMNOPQRSTUVWXYZ[]^_abcdefghijklmnopqrstuvwxyz{|}~"

\* the rank of a character in that order, in place of ord(c)
Ord == [c \in {SubSeq(Ascii, i, i) : i \in 1..Len(Ascii)} |->
            CHOOSE i \in 1..Len(Ascii) : SubSeq(Ascii, i, i) = c]

RECURSIVE StrLess(_, _)
\* a < b for two str: the first differing character decides, a proper
\* prefix is smaller
StrLess(a, b) ==
    IF Len(b) = 0 THEN FALSE
    ELSE IF Len(a) = 0 THEN TRUE
    ELSE LET x == Ord[SubSeq(a, 1, 1)]
             y == Ord[SubSeq(b, 1, 1)]
         IN  IF x # y THEN x < y
             ELSE StrLess(SubSeq(a, 2, Len(a)), SubSeq(b, 2, Len(b)))

RECURSIVE Sorted(_)
\* sorted(S) for a set of str
Sorted(S) ==
    IF S = {} THEN <<>>
    ELSE LET least == CHOOSE x \in S : \A y \in S \ {x} : StrLess(x, y)
         IN  <<least>> \o Sorted(S \ {least})

\* "c" * n
Repeat(c, n) == IF n = 0 THEN "" ELSE
    LET R[k \in 1..n] == IF k = 1 THEN c ELSE R[k - 1] \o c IN R[n]

\* str(n) of 0 <= n < 1000 with leading zeros to three digits
ThreeDigits(n) ==
    (IF n < 100 THEN "0" ELSE "") \o (IF n < 10 THEN "0" ELSE "") \o ToString(n)

RECURSIVE Grouped(_)
\* f"{n:,}" for n >= 0: the digits in groups of three
Grouped(n) ==
    IF n < 1000 THEN ToString(n)
    ELSE Grouped(n \div 1000) \o "," \o ThreeDigits(n % 1000)

RECURSIVE SetToSeq(_)
\* the elements of a finite set in some order
SetToSeq(S) ==
    IF S = {} THEN <<>>
    ELSE LET x == CHOOSE y \in S : TRUE IN <<x>> \o SetToSeq(S \ {x})

RECURSIVE ReprItems(_)
ReprItems(q) ==
    IF Len(q) = 0 THEN ""
    ELSE IF Len(q) = 1 THEN "'" \o q[1] \o "'"
    ELSE "'" \o q[1] \o "', " \o ReprItems(Tail(q))

\* str(a_set_of_str): "set()" when empty, else "{'a', 'b'}".  The order of
\* the elements depends on the hash seed; every use below searches the
\* rendering for a word of letters, which cannot span the "', " between
\* two elements, so the order chosen here decides nothing.
StrOfSet(S) == IF S = {} THEN "set()" ELSE "{" \o ReprItems(SetToSeq(S)) \o "}"

---------------------------------------------------------------------------
(* The tables of AgentDetector and CopilotProjectAnalyzer.                 *)

DEFAULT_AGENTS ==
    <<"data-agent", "logic-agent", "test-agent", "security-agent",
      "infra-agent", "doc-agent">>

DEFAULT_REASON == "Default agent (enabled for all codebases)"

\* the keys of OPTIONAL_AGENT_TRIGGERS, in the dict's order
OPTIONAL_AGENTS ==
    <<"performance-agent", "refactor-agent", "observability-agent",
      "research-agent", "devex-agent", "ux-accessibility-agent",
      "error-handling-agent", "dependency-agent", "build-agent", "cost-agent",
      "knowledge-agent", "ethics-compliance-agent", "benchmark-agent",
      "security-redteam-agent">>

\* a rule that declares nothing; `keys` holds the keys a rule declares
NoTriggers ==
    [keys |-> {}, file_patterns |-> <<>>, file_types |-> <<>>, files |-> <<>>,
     frameworks |-> <<>>, keywords |-> <<>>, tech_indicators |-> <<>>,
     indicators |-> <<>>, min_files |-> 0, min_deps |-> 0,
     min_contributors |-> 0, description |-> ""]

OPTIONAL_AGENT_TRIGGERS(agent) ==
    CASE agent = "performance-agent" ->
           [NoTriggers EXCEPT
              !.keys = {"file_patterns", "file_types", "keywords", "min_files"},
              !.file_patterns = <<"*/api/*", "*/backend/*", "*/pipeline/*">>,
              !.file_types = <<".go", ".rs", ".cpp">>,
              !.keywords = <<"performance", "optimization", "profiling", "benchmark">>,
              !.min_files = 10,
              !.description = "Detected API/backend services or performance-critical code"]
      [] agent = "refactor-agent" ->
           [NoTriggers EXCEPT
              !.keys = {"indicators", "min_files"},
              !.indicators = <<"high_duplication", "large_files", "complex_functions">>,
              !.min_files = 50,
              !.description = "Detected mature codebase that could benefit from refactoring"]
      [] agent = "observability-agent" ->
           [NoTriggers EXCEPT
              !.keys = {"file_patterns", "keywords", "frameworks"},
              !.file_patterns = <<"*/logging/*", "*/monitoring/*", "*/metrics/*">>,
              !.keywords = <<"logger", "metrics", "trace", "span", "observability">>,
              !.frameworks = <<"prometheus", "datadog", "newrelic", "sentry">>,
              !.description = "Detected observability or distributed systems patterns"]
      [] agent = "research-agent" ->
           [NoTriggers EXCEPT
              !.keys = {"tech_indicators", "min_deps"},
              !.tech_indicators = <<"ml", "ai", "pytorch", "tensorflow", "transformers">>,
              !.min_deps = 20,
              !.description = "Detected fast-moving tech stack (AI/ML)"]
      [] agent = "devex-agent" ->
           [NoTriggers EXCEPT
              !.keys = {"indicators", "min_contributors"},
              !.indicators = <<"multiple_contributors", "active_prs">>,
              !.min_contributors = 3,
              !.description = "Detected team-scale repository"]
      [] agent = "ux-accessibility-agent" ->
           [NoTriggers EXCEPT
              !.keys = {"file_patterns", "frameworks", "file_types"},
              !.file_patterns = <<"*/components/*", "*/ui/*", "*/pages/*">>,
              !.frameworks = <<"react", "vue", "angular", "svelte">>,
              !.file_types = <<".jsx", ".tsx", ".vue">>,
              !.description = "Detected frontend/UI project"]
      [] agent = "error-handling-agent" ->
           [NoTriggers EXCEPT
              !.keys = {"indicators", "keywords"},
              !.indicators = <<"production_code", "error_patterns">>,
              !.keywords = <<"try", "catch", "error", "exception", "handle">>,
              !.description = "Detected production codebase"]
      [] agent = "dependency-agent" ->
           [NoTriggers EXCEPT
              !.keys = {"files", "min_deps"},
              !.files = <<"package.json", "requirements.txt", "Cargo.toml", "go.mod", "Gemfile">>,
              !.min_deps = 10,
              !.description = "Detected package manager with dependencies"]
      [] agent = "build-agent" ->
           [NoTriggers EXCEPT
              !.keys = {"files", "keywords"},
              !.files = <<".github/workflows", ".gitlab-ci.yml", "Jenkinsfile", ".circleci">>,
              !.keywords = <<"ci", "cd", "pipeline", "workflow">>,
              !.description = "Detected CI/CD pipelines"]
      [] agent = "cost-agent" ->
           [NoTriggers EXCEPT
              !.keys = {"file_patterns", "files", "keywords"},
              !.file_patterns = <<"*/cloud/*", "*/aws/*", "*/gcp/*", "*/azure/*">>,
              !.files = <<"serverless.yml", "lambda", "function">>,
              !.keywords = <<"serverless", "lambda", "cloud", "aws", "gcp">>,
              !.description = "Detected cloud/serverless infrastructure"]
      [] agent = "knowledge-agent" ->
           [NoTriggers EXCEPT
              !.keys = {"indicators", "file_patterns"},
              !.indicators = <<"active_docs", "wiki">>,
              !.file_patterns = <<"*/docs/*", "*/wiki/*">>,
              !.description = "Detected documentation system"]
      [] agent = "ethics-compliance-agent" ->
           [NoTriggers EXCEPT
              !.keys = {"keywords", "file_patterns"},
              !.keywords = <<"gdpr", "hipaa", "pci", "compliance", "privacy", "regulation">>,
              !.file_patterns = <<"*/compliance/*", "*/legal/*">>,
              !.description = "Detected compliance requirements"]
      [] agent = "benchmark-agent" ->
           [NoTriggers EXCEPT
              !.keys = {"file_patterns", "keywords"},
              !.file_patterns = <<"*/benchmark/*", "*/perf/*">>,
              !.keywords = <<"benchmark", "performance", "profiling">>,
              !.description = "Detected benchmark or performance testing"]
      [] agent = "security-redteam-agent" ->
           [NoTriggers EXCEPT
              !.keys = {"indicators", "keywords"},
              !.indicators = <<"customer_facing", "public_api">>,
              !.keywords = <<"api", "endpoint", "public", "external">>,
              !.description = "Detected customer-facing or public services"]

\* the elements of a list
Elems(q) == {q[i] : i \in 1..Len(q)}

\* the extensions dict of AgentDetector._detect_languages, in its order
Detector_extensions ==
    << <<".py", "Python">>, <<".js", "JavaScript">>, <<".ts", "TypeScript">>,
       <<".jsx", "React">>, <<".tsx", "React TypeScript">>, <<".java", "Java">>,
       <<".go", "Go">>, <<".rs", "Rust">>, <<".rb", "Ruby">>, <<".php", "PHP">>,
       <<".cpp", "C++">>, <<".c", "C">>, <<".cs", "C#">>, <<".swift", "Swift">>,
       <<".kt", "Kotlin">> >>

Detector_patterns_to_check ==
    << <<"api", <<"*/api/*", "*/routes/*", "*/endpoints/*">> >>,
       <<"database", <<"*/models/*", "*/db/*", "*/database/*">> >>,
       <<"testing", <<"*/tests/*", "*/test/*", "*/__tests__/*">> >>,
       <<"frontend", <<"*/components/*", "*/views/*", "*/pages/*">> >>,
       <<"ml", <<"*/models/*", "*/training/*", "*/inference/*">> >> >>

\* the extensions dict of CopilotProjectAnalyzer._detect_languages
Copilot_extensions ==
    << <<".py", "Python">>, <<".js", "JavaScript">>, <<".ts", "TypeScript">>,
       <<".jsx", "React">>, <<".tsx", "React TypeScript">>, <<".java", "Java">>,
       <<".go", "Go">>, <<".rs", "Rust">>, <<".rb", "Ruby">>, <<".php", "PHP">> >>

Copilot_patterns_to_check ==
    << <<"api", <<"*/api/*", "*/routes/*", "*/endpoints/*">> >>,
       <<"frontend", <<"*/components/*", "*/views/*", "*/pages/*">> >>,
       <<"tests", <<"*/tests/*", "*/test/*", "*/__tests__/*">> >>,
       <<"database", <<"*/models/*", "*/db/*", "*/migrations/*">> >>,
       <<"ci_cd", <<".github/workflows/*", ".gitlab-ci.yml">> >>,
       <<"docker", <<"Dockerfile", "docker-compose.yml">> >> >>

---------------------------------------------------------------------------
(* The filesystem below the root.                                          *)
(*                                                                         *)
(* tree.kind  what the root path is: "dir", "file" or "missing"            *)
(* tree.files the regular files listed one by one, each                    *)
(*              path   components below the root                           *)
(*              mode   "ok", or "denied" when open() raises PermissionError*)
(*              bytes  the content; "~" stands for a byte that is no valid *)
(*                     UTF-8 (as in a binary file)                         *)
(*              json   what json.load makes of the content                 *)
(* tree.bulk  the number of further files m1.py, m2.py, ... in the root,   *)
(*            each holding one line of text                                *)

NoJson == [valid |-> FALSE, deps |-> {}, dev |-> {}]

BulkName == "m1.py"
BulkBytes == "pass\n"

File(path, mode, bytes, json) ==
    [path |-> path, mode |-> mode, bytes |-> bytes, json |-> json]

\* every file and directory below the root, as a path
Entries(t) ==
    IF t.kind # "dir" THEN {}
    ELSE UNION {{SubSeq(f.path, 1, k) : k \in 1..Len(f.path)} : f \in t.files}
         \cup (IF t.bulk > 0 THEN {<<BulkName>>} ELSE {})

\* how many entries of the tree the path p stands for
Multiplicity(t, p) == IF p = <<BulkName>> THEN t.bulk ELSE 1

\* Path.is_file()
IsFile(t, p) == p = <<BulkName>> \/ \E f \in t.files : f.path = p

\* the patterns and names of the tables above, which the two tools hand to
\* glob(), rglob() and `/`
TablePatterns ==
    UNION { Elems(OPTIONAL_AGENT_TRIGGERS(a).file_patterns)
              \cup Elems(OPTIONAL_AGENT_TRIGGERS(a).files)
              \cup {"*" \o x : x \in Elems(OPTIONAL_AGENT_TRIGGERS(a).file_types)} :
            a \in Elems(OPTIONAL_AGENTS) }
    \cup UNION { Elems(e[2]) :
                 e \in Elems(Detector_patterns_to_check) \cup Elems(Copilot_patterns_to_check) }
    \cup { "*" \o e[1] : e \in Elems(Detector_extensions) \cup Elems(Copilot_extensions) }
    \cup {"*"}

\* the components pathlib parses each of them into
ParsedPattern == [p \in TablePatterns |-> Split(p, "/")]

\* the components pathlib parses a pattern or a relative path into
PatternParts(p) == IF p \in TablePatterns THEN ParsedPattern[p] ELSE Split(p, "/")

\* fnmatch of one path component; the patterns of the program have the
\* forms "*", "*<suffix>" and "<name>"
ComponentMatches(pat, name) ==
    IF pat = "*" THEN TRUE
    ELSE IF SubSeq(pat, 1, 1) = "*" THEN EndsWith(name, SubSeq(pat, 2, Len(pat)))
    ELSE pat = name

\* Path.glob(pattern): the entries whose components match the pattern's
Glob(t, pattern) ==
    UNION { {p \in Entries(t) :
                /\ Len(p) = Len(parts)
                /\ \A i \in 1..Len(parts) : ComponentMatches(parts[i], p[i])} :
            parts \in {PatternParts(pattern)} }

\* Path.rglob(pattern) = glob("**/" + pattern): the pattern's components
\* match the last components of the entry
RGlob(t, pattern) ==
    UNION { {p \in Entries(t) :
                /\ Len(p) >= Len(parts)
                /\ \A i \in 1..Len(parts) :
                       ComponentMatches(parts[i], p[Len(p) - Len(parts) + i])} :
            parts \in {PatternParts(pattern)} }

RECURSIVE SumOver(_, _)
\* the sum of weight[x] over the x of the finite set S
SumOver(S, weight) ==
    IF S = {} THEN 0
    ELSE LET x == CHOOSE y \in S : TRUE
         IN  weight[x] + SumOver(S \ {x}, weight)

\* len(list(paths)) for a set of entries
CountEntries(t, paths) == SumOver(paths, [p \in paths |-> Multiplicity(t, p)])

\* the components of a relative path written with "/" (a trailing "/" adds none)
PathParts(name) == SelectSeq(PatternParts(name), LAMBDA c : c # "")

\* (self.repo_path / name).exists()
Exists(t, name) == PathParts(name) \in Entries(t)

\* the content of the file at path p
FileAt(t, p) ==
    IF p = <<BulkName>> THEN File(p, "ok", BulkBytes, NoJson)
    ELSE CHOOSE f \in t.files : f.path = p

RECURSIVE DecodeIgnore(_)
\* bytes.decode('utf-8', errors='ignore'): invalid bytes are dropped
DecodeIgnore(b) ==
    IF Len(b) = 0 THEN ""
    ELSE (IF SubSeq(b, 1, 1) = "~" THEN "" ELSE SubSeq(b, 1, 1))
             \o DecodeIgnore(SubSeq(b, 2, Len(b)))

\* whether bytes.decode('utf-8') succeeds
DecodesStrictly(b) == ~Contains("~", b)

\* sum(1 for _ in f): the lines of a text, the last one with or without "\n"
CountLines(text) ==
    IF text = "" THEN 0
    ELSE IF EndsWith(text, "\n") THEN Len(Split(text, "\n")) - 1
    ELSE Len(Split(text, "\n"))

---------------------------------------------------------------------------
(* AgentDetector: the collectors.                                          *)

\* Counter `counter` after counter[key] += n
CounterAdd(counter, key, n) ==
    [k \in DOMAIN counter \cup {key} |->
        (IF k \in DOMAIN counter THEN counter[k] ELSE 0) + (IF k = key THEN n ELSE 0)]

RECURSIVE CountByExtension(_, _, _)
\* for ext, lang in extensions.items(): counter[lang] += len(rglob("*" + ext))
\* when that list is not empty
CountByExtension(t, extensions, counter) ==
    IF Len(extensions) = 0 THEN counter
    ELSE CHOOSE result \in {
             CountByExtension(t, Tail(extensions),
                 IF n > 0 THEN CounterAdd(counter, extensions[1][2], n) ELSE counter)
           : n \in {CountEntries(t, RGlob(t, "*" \o extensions[1][1]))} } : TRUE

\* AgentDetector._detect_languages: the new self.detected_languages
Detector_detect_languages(t, counter) ==
    CountByExtension(t, Detector_extensions, counter)

\* file_path.exists() for a manifest in the root
ManifestExists(t, name) == <<name>> \in Entries(t)

\* whether `with open(file_path) as f: f.read()` succeeds (text mode, strict)
CanReadText(t, name) ==
    /\ IsFile(t, <<name>>)
    /\ FileAt(t, <<name>>).mode = "ok"
    /\ DecodesStrictly(FileAt(t, <<name>>).bytes)

\* f.read().lower() of a manifest
ManifestText(t, name) == Lower(FileAt(t, <<name>>).bytes)

\* whether json.load(f) succeeds and gives a dict
CanLoadJson(t, name) == CanReadText(t, name) /\ FileAt(t, <<name>>).json.valid

\* {**data.get(first, {}), **data.get(second, {})}: the names declared
JsonDeps(t, name) == FileAt(t, <<name>>).json.deps \cup FileAt(t, <<name>>).json.dev

\* framework_indicators of AgentDetector._check_package_json
Detector_package_indicators ==
    << <<"react", "react">>, <<"vue", "vue">>, <<"angular", "@angular">>,
       <<"express", "express">>, <<"next", "next">>, <<"nest", "@nestjs">>,
       <<"fastify", "fastify">>, <<"koa", "koa">> >>

\* _check_package_json if a dependency had to be named as the indicator is
Detector_check_package_json_exact(t, fws) ==
    IF CanLoadJson(t, "package.json")
    THEN fws \cup {pair[1] : pair \in
                     {q \in Elems(Detector_package_indicators) :
                         \E dep \in JsonDeps(t, "package.json") : q[2] = dep}}
    ELSE fws

\* AgentDetector._check_package_json: the new self.detected_frameworks
Detector_check_package_json(t, fws) ==
    IF CanLoadJson(t, "package.json")
    THEN fws \cup {pair[1] : pair \in
                     {q \in Elems(Detector_package_indicators) :
                         \E dep \in JsonDeps(t, "package.json") : Contains(q[2], dep)}}
    ELSE fws

\* the readers that search the lower-cased text for each indicator
TextIndicators(t, name, indicators, fws) ==
    IF CanReadText(t, name)
    THEN fws \cup {fw \in Elems(indicators) : Contains(fw, ManifestText(t, name))}
    ELSE fws

Detector_check_requirements_txt(t, fws) ==
    TextIndicators(t, "requirements.txt",
        <<"django", "flask", "fastapi", "pytorch", "tensorflow",
          "pandas", "numpy", "scikit", "keras", "transformers">>, fws)

Detector_check_gemfile(t, fws) ==
    TextIndicators(t, "Gemfile", <<"rails", "sinatra">>, fws)

Detector_check_go_mod(t, fws) ==
    TextIndicators(t, "go.mod", <<"gin", "echo", "fiber", "gorilla">>, fws)

Detector_check_cargo_toml(t, fws) ==
    TextIndicators(t, "Cargo.toml", <<"actix", "rocket", "warp", "tokio">>, fws)

Detector_check_composer_json(t, fws) ==
    IF CanLoadJson(t, "composer.json")
    THEN fws \cup (IF "laravel/framework" \in JsonDeps(t, "composer.json")
                   THEN {"laravel"} ELSE {})
             \cup (IF "symfony/symfony" \in JsonDeps(t, "composer.json")
                   THEN {"symfony"} ELSE {})
    ELSE fws

\* _detect_frameworks if a reader that fails ended the loop over the
\* manifests instead of returning to it
Detector_detect_frameworks_aborting(t, fws) ==
    LET f1 == IF ManifestExists(t, "package.json")
              THEN Detector_check_package_json(t, fws) ELSE fws
        f2 == IF ManifestExists(t, "requirements.txt")
              THEN Detector_check_requirements_txt(t, f1) ELSE f1
        f3 == IF ManifestExists(t, "Gemfile")
              THEN Detector_check_gemfile(t, f2) ELSE f2
        f4 == IF ManifestExists(t, "go.mod")
              THEN Detector_check_go_mod(t, f3) ELSE f3
        f5 == IF ManifestExists(t, "Cargo.toml")
              THEN Detector_check_cargo_toml(t, f4) ELSE f4
    IN  IF ManifestExists(t, "package.json") /\ ~CanLoadJson(t, "package.json")
        THEN fws
        ELSE IF ManifestExists(t, "requirements.txt") /\ ~CanReadText(t, "requirements.txt")
        THEN f1
        ELSE IF ManifestExists(t, "composer.json")
        THEN Detector_check_composer_json(t, f5) ELSE f5

\* AgentDetector._detect_frameworks: the new self.detected_frameworks; a
\* reader runs when its manifest exists and adds nothing when it raises
Detector_detect_frameworks(t, fws) ==
    LET f1 == IF ManifestExists(t, "package.json")
              THEN Detector_check_package_json(t, fws) ELSE fws
        f2 == IF ManifestExists(t, "requirements.txt")
              THEN Detector_check_requirements_txt(t, f1) ELSE f1
        f3 == IF ManifestExists(t, "Gemfile")
              THEN Detector_check_gemfile(t, f2) ELSE f2
        f4 == IF ManifestExists(t, "go.mod")
              THEN Detector_check_go_mod(t, f3) ELSE f3
        f5 == IF ManifestExists(t, "Cargo.toml")
              THEN Detector_check_cargo_toml(t, f4) ELSE f4
    IN  IF ManifestExists(t, "composer.json")
        THEN Detector_check_composer_json(t, f5) ELSE f5

RECURSIVE PatternLoop(_, _, _)
\* the inner loop of both _detect_patterns over the globs of one tag, from
\* the i-th on: the globs it evaluates and whether one matched (the break)
PatternLoop(t, paths, i) ==
    IF i > Len(paths) THEN [tried |-> <<>>, matched |-> FALSE]
    ELSE IF Glob(t, paths[i]) # {}
         THEN [tried |-> <<paths[i]>>, matched |-> TRUE]
         ELSE LET rest == PatternLoop(t, paths, i + 1)
              IN  [tried |-> <<paths[i]>> \o rest.tried, matched |-> rest.matched]

RECURSIVE PatternsFound_leaving_outer_loop(_, _, _)
\* the loop if the break left the loop over the tags as well
PatternsFound_leaving_outer_loop(t, table, found) ==
    IF table = <<>> THEN found
    ELSE IF PatternLoop(t, table[1][2], 1).matched
         THEN found \cup {table[1][1]}
         ELSE PatternsFound_leaving_outer_loop(t, Tail(table), found)

\* the loop shared by both _detect_patterns: a tag is added at the first of
\* its globs that matches anything
PatternsFound(t, table, found) ==
    found \cup {entry[1] : entry \in
                  {e \in Elems(table) : PatternLoop(t, e[2], 1).matched}}

\* AgentDetector._detect_patterns: the new self.detected_patterns
Detector_detect_patterns(t, found) == PatternsFound(t, Detector_patterns_to_check, found)

ignore_patterns ==
    <<".git", "node_modules", "__pycache__", ".pytest_cache", "venv", "env",
      ".venv", "dist", "build", ".next", ".cache", "coverage", ".DS_Store">>

\* str(self.repo_path / p)
FullPath(root, p) == root \o "/" \o JoinPath(p)

\* AgentDetector._should_ignore
should_ignore(file_path) ==
    \E i \in 1..Len(ignore_patterns) : Contains(ignore_patterns[i], file_path)

\* the files _detect_structure counts: rglob("*") entries that are files and
\* are not ignored
CountedFiles(root, t) ==
    {p \in RGlob(t, "*") : IsFile(t, p) /\ ~should_ignore(FullPath(root, p))}

\* what one file adds to line_count: its lines when it opens (undecodable
\* bytes are ignored), nothing when open() raises
LinesAdded(t, p) ==
    IF FileAt(t, p).mode = "ok"
    THEN CountLines(DecodeIgnore(FileAt(t, p).bytes))
    ELSE 0

\* AgentDetector._detect_structure: what its one walk of the tree adds to
\* file_count and to line_count
Detector_detect_structure(root, t) ==
    CHOOSE added \in {
        [files |-> CountEntries(t, counted),
         lines |-> SumOver(counted,
                       [p \in counted |-> Multiplicity(t, p) * LinesAdded(t, p)])]
      : counted \in {CountedFiles(root, t)} } : TRUE

Detector_structure_files(root, t) == Detector_detect_structure(root, t).files

Detector_structure_lines(root, t) == Detector_detect_structure(root, t).lines

---------------------------------------------------------------------------
(* The version-control tool.                                               *)
(*                                                                         *)
(* git.result  "ok" (exit status 0), "exit" (a non-zero status: the root   *)
(*             is no repository), "absent" (no git executable:             *)
(*             subprocess.run raises FileNotFoundError) or "timeout"       *)
(*             (subprocess.run raises TimeoutExpired)                      *)
(* git.commits the author e-mail of every commit the query lists, newest   *)
(*             first; none when it exits with 0 and prints nothing         *)
(* git.stdin   the standard input the tool inherits: "terminal", or "empty" *)
(*             (a closed or empty stream, as under a job runner)           *)

IsSpace(c) == c \in {" ", "\n", "\t"}

RECURSIVE LStrip(_)
LStrip(s) ==
    IF Len(s) > 0 /\ IsSpace(SubSeq(s, 1, 1)) THEN LStrip(SubSeq(s, 2, Len(s))) ELSE s

RECURSIVE RStrip(_)
RStrip(s) ==
    IF Len(s) > 0 /\ IsSpace(SubSeq(s, Len(s), Len(s)))
    THEN RStrip(SubSeq(s, 1, Len(s) - 1)) ELSE s

\* s.strip()
Strip(s) == LStrip(RStrip(s))

RECURSIVE GitLogStdout(_)
\* the output of `git log --format=%ae`: one line per commit
GitLogStdout(commits) ==
    IF Len(commits) = 0 THEN ""
    ELSE commits[1] \o "\n" \o GitLogStdout(Tail(commits))

\* subprocess.run raises: the executable is missing, the call times out, or
\* cwd is no directory
GitRaises(t, g) == t.kind # "dir" \/ g.result \in {"absent", "timeout"}

\* result.stdout of a call that returned
GitStdout(g, stdout) == IF g.result = "ok" THEN stdout ELSE ""

\* _detect_git_activity if it did not look at the exit status
Detector_detect_git_activity_any_exit(t, g, count) ==
    IF GitRaises(t, g) THEN count
    ELSE Cardinality(Elems(Split(Strip(GitStdout(g, GitLogStdout(g.commits))), "\n")))

\* AgentDetector._detect_git_activity: the new self.contributors
Detector_detect_git_activity(t, g, count) ==
    IF GitRaises(t, g) THEN count
    ELSE IF g.result = "ok"
    THEN Cardinality(Elems(Split(Strip(GitStdout(g, GitLogStdout(g.commits))), "\n")))
    ELSE count

---------------------------------------------------------------------------
(* AgentDetector: the trigger evaluation.                                  *)

Enable(reason) == [enable |-> TRUE, reason |-> reason]
NoEnable == [enable |-> FALSE, reason |-> ""]

\* _should_enable_agent if a keyword had to be the whole name of a detected
\* framework
should_enable_agent_whole_name(agent, triggers, t, fws, pats, files, contribs) ==
    \* `rendered` is str(self.detected_frameworks).lower()
    CHOOSE result \in {
        IF /\ "file_patterns" \in triggers.keys
           /\ \E i \in 1..Len(triggers.file_patterns) : Glob(t, triggers.file_patterns[i]) # {}
        THEN Enable(triggers.description)
        ELSE IF /\ "file_types" \in triggers.keys
                /\ \E i \in 1..Len(triggers.file_types) :
                       RGlob(t, "*" \o triggers.file_types[i]) # {}
        THEN Enable(triggers.description)
        ELSE IF /\ "files" \in triggers.keys
                /\ \E i \in 1..Len(triggers.files) :
                       Exists(t, triggers.files[i]) \/ RGlob(t, triggers.files[i]) # {}
        THEN Enable(triggers.description)
        ELSE IF /\ "frameworks" \in triggers.keys
                /\ \E i \in 1..Len(triggers.frameworks) : triggers.frameworks[i] \in fws
        THEN Enable(triggers.description)
        ELSE IF /\ "keywords" \in triggers.keys
                /\ \E i \in 1..Len(triggers.keywords) :
                       triggers.keywords[i] \in fws
        THEN Enable(triggers.description)
        ELSE IF /\ "tech_indicators" \in triggers.keys
                /\ \E i \in 1..Len(triggers.tech_indicators) :
                       triggers.tech_indicators[i] \in fws
        THEN Enable(triggers.description)
        ELSE IF /\ "min_files" \in triggers.keys
                /\ files >= triggers.min_files
                /\ agent = "refactor-agent"
        THEN Enable("Large codebase detected (refactoring recommended)")
        ELSE IF /\ "min_contributors" \in triggers.keys
                /\ contribs >= triggers.min_contributors
        THEN Enable(triggers.description)
        ELSE IF /\ "indicators" \in triggers.keys
                /\ "production_code" \in Elems(triggers.indicators)
                /\ (Exists(t, "Dockerfile") \/ Exists(t, ".github/workflows"))
        THEN Enable(triggers.description)
        ELSE IF /\ "indicators" \in triggers.keys
                /\ ("customer_facing" \in Elems(triggers.indicators)
                       \/ "public_api" \in Elems(triggers.indicators))
                /\ "api" \in pats
        THEN Enable(triggers.description)
        ELSE IF /\ "indicators" \in triggers.keys
                /\ "multiple_contributors" \in Elems(triggers.indicators)
                /\ contribs >= 3
        THEN Enable(triggers.description)
        ELSE NoEnable
      : rendered \in {Lower(StrOfSet(fws))} } : TRUE

\* _should_enable_agent if the minimum-file-count predicate emitted the
\* description of the rule like the other predicates
should_enable_agent_one_reason(agent, triggers, t, fws, pats, files, contribs) ==
    \* `rendered` is str(self.detected_frameworks).lower()
    CHOOSE result \in {
        IF /\ "file_patterns" \in triggers.keys
           /\ \E i \in 1..Len(triggers.file_patterns) : Glob(t, triggers.file_patterns[i]) # {}
        THEN Enable(triggers.description)
        ELSE IF /\ "file_types" \in triggers.keys
                /\ \E i \in 1..Len(triggers.file_types) :
                       RGlob(t, "*" \o triggers.file_types[i]) # {}
        THEN Enable(triggers.description)
        ELSE IF /\ "files" \in triggers.keys
                /\ \E i \in 1..Len(triggers.files) :
                       Exists(t, triggers.files[i]) \/ RGlob(t, triggers.files[i]) # {}
        THEN Enable(triggers.description)
        ELSE IF /\ "frameworks" \in triggers.keys
                /\ \E i \in 1..Len(triggers.frameworks) : triggers.frameworks[i] \in fws
        THEN Enable(triggers.description)
        ELSE IF /\ "keywords" \in triggers.keys
                /\ \E i \in 1..Len(triggers.keywords) :
                       Contains(triggers.keywords[i], rendered)
        THEN Enable(triggers.description)
        ELSE IF /\ "tech_indicators" \in triggers.keys
                /\ \E i \in 1..Len(triggers.tech_indicators) :
                       Contains(triggers.tech_indicators[i], rendered)
        THEN Enable(triggers.description)
        ELSE IF /\ "min_files" \in triggers.keys
                /\ files >= triggers.min_files
                /\ agent = "refactor-agent"
        THEN Enable(triggers.description)
        ELSE IF /\ "min_contributors" \in triggers.keys
                /\ contribs >= triggers.min_contributors
        THEN Enable(triggers.description)
        ELSE IF /\ "indicators" \in triggers.keys
                /\ "production_code" \in Elems(triggers.indicators)
                /\ (Exists(t, "Dockerfile") \/ Exists(t, ".github/workflows"))
        THEN Enable(triggers.description)
        ELSE IF /\ "indicators" \in triggers.keys
                /\ ("customer_facing" \in Elems(triggers.indicators)
                       \/ "public_api" \in Elems(triggers.indicators))
                /\ "api" \in pats
        THEN Enable(triggers.description)
        ELSE IF /\ "indicators" \in triggers.keys
                /\ "multiple_contributors" \in Elems(triggers.indicators)
                /\ contribs >= 3
        THEN Enable(triggers.description)
        ELSE NoEnable
      : rendered \in {Lower(StrOfSet(fws))} } : TRUE

\* AgentDetector._should_enable_agent(agent, triggers) on an object whose
\* fields are fws, pats, files, contribs and whose root holds the tree t
should_enable_agent(agent, triggers, t, fws, pats, files, contribs) ==
    \* `rendered` is str(self.detected_frameworks).lower()
    CHOOSE result \in {
        IF /\ "file_patterns" \in triggers.keys
           /\ \E i \in 1..Len(triggers.file_patterns) : Glob(t, triggers.file_patterns[i]) # {}
        THEN Enable(triggers.description)
        ELSE IF /\ "file_types" \in triggers.keys
                /\ \E i \in 1..Len(triggers.file_types) :
                       RGlob(t, "*" \o triggers.file_types[i]) # {}
        THEN Enable(triggers.description)
        ELSE IF /\ "files" \in triggers.keys
                /\ \E i \in 1..Len(triggers.files) :
                       Exists(t, triggers.files[i]) \/ RGlob(t, triggers.files[i]) # {}
        THEN Enable(triggers.description)
        ELSE IF /\ "frameworks" \in triggers.keys
                /\ \E i \in 1..Len(triggers.frameworks) : triggers.frameworks[i] \in fws
        THEN Enable(triggers.description)
        ELSE IF /\ "keywords" \in triggers.keys
                /\ \E i \in 1..Len(triggers.keywords) :
                       Contains(triggers.keywords[i], rendered)
        THEN Enable(triggers.description)
        ELSE IF /\ "tech_indicators" \in triggers.keys
                /\ \E i \in 1..Len(triggers.tech_indicators) :
                       Contains(triggers.tech_indicators[i], rendered)
        THEN Enable(triggers.description)
        ELSE IF /\ "min_files" \in triggers.keys
                /\ files >= triggers.min_files
                /\ agent = "refactor-agent"
        THEN Enable("Large codebase detected (refactoring recommended)")
        ELSE IF /\ "min_contributors" \in triggers.keys
                /\ contribs >= triggers.min_contributors
        THEN Enable(triggers.description)
        ELSE IF /\ "indicators" \in triggers.keys
                /\ "production_code" \in Elems(triggers.indicators)
                /\ (Exists(t, "Dockerfile") \/ Exists(t, ".github/workflows"))
        THEN Enable(triggers.description)
        ELSE IF /\ "indicators" \in triggers.keys
                /\ ("customer_facing" \in Elems(triggers.indicators)
                       \/ "public_api" \in Elems(triggers.indicators))
                /\ "api" \in pats
        THEN Enable(triggers.description)
        ELSE IF /\ "indicators" \in triggers.keys
                /\ "multiple_contributors" \in Elems(triggers.indicators)
                /\ contribs >= 3
        THEN Enable(triggers.description)
        ELSE NoEnable
      : rendered \in {Lower(StrOfSet(fws))} } : TRUE

\* the decision of the rule of one optional agent on the object's fields
Decision(agent, t, fws, pats, files, contribs) ==
    should_enable_agent(agent, OPTIONAL_AGENT_TRIGGERS(agent), t, fws, pats, files, contribs)

RECURSIVE DecideAll(_, _, _, _, _, _)
\* detect(), lines 140-141: the decision of every rule, in the table's order
DecideAll(agents, t, fws, pats, files, contribs) ==
    IF Len(agents) = 0 THEN <<>>
    ELSE <<Decision(agents[1], t, fws, pats, files, contribs)>>
             \o DecideAll(Tail(agents), t, fws, pats, files, contribs)

Detector_decisions(t, fws, pats, files, contribs) ==
    DecideAll(OPTIONAL_AGENTS, t, fws, pats, files, contribs)

RECURSIVE EnabledFrom(_, _)
\* the optional agents whose decision is to enable, from position i on
EnabledFrom(decisions, i) ==
    IF i > Len(decisions) THEN <<>>
    ELSE (IF decisions[i].enable THEN <<OPTIONAL_AGENTS[i]>> ELSE <<>>)
             \o EnabledFrom(decisions, i + 1)

\* enabled_agents if an enabled optional agent took the place of the first
\* default agent
Detector_enabled_agents_displacing(decisions) ==
    IF EnabledFrom(decisions, 1) = <<>> THEN DEFAULT_AGENTS
    ELSE Tail(DEFAULT_AGENTS) \o EnabledFrom(decisions, 1)

\* detect(), lines 132-146: enabled_agents
Detector_enabled_agents(decisions) == DEFAULT_AGENTS \o EnabledFrom(decisions, 1)

\* reasons if the reason of every optional agent were recorded, enabled or not
Detector_reasons_of_all(decisions) ==
    [a \in Elems(DEFAULT_AGENTS) \cup Elems(OPTIONAL_AGENTS) |->
        IF a \in Elems(DEFAULT_AGENTS) THEN DEFAULT_REASON
        ELSE decisions[CHOOSE i \in 1..Len(OPTIONAL_AGENTS) : OPTIONAL_AGENTS[i] = a].reason]

\* detect(), lines 132-146: reasons; the entry of an optional agent is
\* written after the default entries
Detector_reasons(decisions) ==
    LET optional == {i \in 1..Len(decisions) : decisions[i].enable}
    IN  [a \in Elems(DEFAULT_AGENTS) \cup {OPTIONAL_AGENTS[i] : i \in optional} |->
            IF \E i \in optional : OPTIONAL_AGENTS[i] = a
            THEN decisions[CHOOSE i \in optional : OPTIONAL_AGENTS[i] = a].reason
            ELSE DEFAULT_REASON]

---------------------------------------------------------------------------
(* AgentDetector.generate_report.  The pictographs that open its headings  *)
(* are left out, those of the agent lines are written as ASCII marks.      *)

Check == "(v)"      \* U+2705, before an enabled agent
Circle == "(o)"     \* U+2B55, before an agent not enabled
Arrow == "->"       \* U+2192, before a reason or description

RECURSIVE MostCommonFrom(_, _)
\* Counter.most_common() over the keys q in insertion order: the largest
\* count first, equal counts in insertion order
MostCommonFrom(counter, q) ==
    IF q = <<>> THEN <<>>
    ELSE LET i == CHOOSE k \in 1..Len(q) :
                      /\ \A j \in 1..Len(q) : counter[q[j]] <= counter[q[k]]
                      /\ \A j \in 1..(k - 1) : counter[q[j]] < counter[q[k]]
         IN  <<q[i]>> \o MostCommonFrom(counter,
                             SubSeq(q, 1, i - 1) \o SubSeq(q, i + 1, Len(q)))

\* the keys of self.detected_languages in insertion order: _detect_languages
\* inserts them in the order of its extensions dict
LanguagesInserted(counter) ==
    LET Present(e) == e[2] \in DOMAIN counter
        kept == SelectSeq(Detector_extensions, Present)
    IN  [i \in 1..Len(kept) |-> kept[i][2]]

\* sorted(all_optional): the keys of OPTIONAL_AGENT_TRIGGERS
SortedOptionalAgents == Sorted(Elems(OPTIONAL_AGENTS))

\* sorted(not_enabled) for a subset of those keys
SortedNotEnabled(not_enabled) ==
    LET Kept(a) == a \in not_enabled IN SelectSeq(SortedOptionalAgents, Kept)

\* the lines of every part, one part after the other
Lines(parts) ==
    LET L[i \in 0..Len(parts)] == IF i = 0 THEN <<>> ELSE L[i - 1] \o parts[i]
    IN  L[Len(parts)]

\* the report if every optional agent were listed as not enabled
generate_report_listing_all(langs, fws, pats, files, lines, contribs, agents, rsns) ==
    LET LanguageLine(lang) == <<"  - " \o lang \o ": " \o ToString(langs[lang]) \o " files">>
        ItemLine(x) == <<"  - " \o x>>
        DefaultLine(agent) == <<"    " \o Check \o " " \o agent>>
        NotDefault(a) == a \notin Elems(DEFAULT_AGENTS)
        optional == SelectSeq(agents, NotDefault)
        OptionalLines(agent) ==
            <<"    " \o Check \o " " \o agent,
              "       " \o Arrow \o " " \o
                  (IF agent \in DOMAIN rsns THEN rsns[agent] ELSE "N/A")>>
        not_enabled == Elems(OPTIONAL_AGENTS)
        NotEnabledLines(agent) ==
            <<"    " \o Circle \o " " \o agent>>
            \o (IF OPTIONAL_AGENT_TRIGGERS(agent).description # ""
                THEN <<"       " \o Arrow \o " " \o OPTIONAL_AGENT_TRIGGERS(agent).description>>
                ELSE <<>>)
    IN  <<"Codebase Analysis Report", Repeat("=", 50), "">>
        \o <<"Languages Detected:">>
        \o Lines([k \in 1..Len(MostCommonFrom(langs, LanguagesInserted(langs))) |-> LanguageLine((MostCommonFrom(langs, LanguagesInserted(langs)))[k])])
        \o <<"">>
        \o (IF fws # {}
            THEN <<"Frameworks Detected:">> \o Lines([k \in 1..Len(Sorted(fws)) |-> ItemLine((Sorted(fws))[k])]) \o <<"">>
            ELSE <<>>)
        \o (IF pats # {}
            THEN <<"Patterns Detected:">> \o Lines([k \in 1..Len(Sorted(pats)) |-> ItemLine((Sorted(pats))[k])]) \o <<"">>
            ELSE <<>>)
        \o <<"Repository Metrics:",
             "  - Files: " \o ToString(files),
             "  - Lines: " \o Grouped(lines),
             "  - Contributors: " \o ToString(contribs),
             "">>
        \o <<"Enabled Agents:", "">>
        \o <<"  Default Agents (always enabled):">>
        \o Lines([k \in 1..Len(DEFAULT_AGENTS) |-> DefaultLine(DEFAULT_AGENTS[k])])
        \o <<"">>
        \o (IF optional # <<>>
            THEN <<"  Optional Agents (detected):">> \o Lines([k \in 1..Len(optional) |-> OptionalLines(optional[k])])
            ELSE <<>>)
        \o <<"">>
        \o <<"  Agents you might want to consider:">>
        \o Lines([k \in 1..Len(SortedNotEnabled(not_enabled)) |-> NotEnabledLines((SortedNotEnabled(not_enabled))[k])])
        \o <<"">>

\* AgentDetector.generate_report(enabled_agents, reasons): the lines of the
\* report, which it joins with "\n"
generate_report(langs, fws, pats, files, lines, contribs, agents, rsns) ==
    LET LanguageLine(lang) == <<"  - " \o lang \o ": " \o ToString(langs[lang]) \o " files">>
        ItemLine(x) == <<"  - " \o x>>
        DefaultLine(agent) == <<"    " \o Check \o " " \o agent>>
        NotDefault(a) == a \notin Elems(DEFAULT_AGENTS)
        optional == SelectSeq(agents, NotDefault)
        OptionalLines(agent) ==
            <<"    " \o Check \o " " \o agent,
              "       " \o Arrow \o " " \o
                  (IF agent \in DOMAIN rsns THEN rsns[agent] ELSE "N/A")>>
        not_enabled == Elems(OPTIONAL_AGENTS) \ Elems(optional)
        NotEnabledLines(agent) ==
            <<"    " \o Circle \o " " \o agent>>
            \o (IF OPTIONAL_AGENT_TRIGGERS(agent).description # ""
                THEN <<"       " \o Arrow \o " " \o OPTIONAL_AGENT_TRIGGERS(agent).description>>
                ELSE <<>>)
    IN  <<"Codebase Analysis Report", Repeat("=", 50), "">>
        \o <<"Languages Detected:">>
        \o Lines([k \in 1..Len(MostCommonFrom(langs, LanguagesInserted(langs))) |-> LanguageLine((MostCommonFrom(langs, LanguagesInserted(langs)))[k])])
        \o <<"">>
        \o (IF fws # {}
            THEN <<"Frameworks Detected:">> \o Lines([k \in 1..Len(Sorted(fws)) |-> ItemLine((Sorted(fws))[k])]) \o <<"">>
            ELSE <<>>)
        \o (IF pats # {}
            THEN <<"Patterns Detected:">> \o Lines([k \in 1..Len(Sorted(pats)) |-> ItemLine((Sorted(pats))[k])]) \o <<"">>
            ELSE <<>>)
        \o <<"Repository Metrics:",
             "  - Files: " \o ToString(files),
             "  - Lines: " \o Grouped(lines),
             "  - Contributors: " \o ToString(contribs),
             "">>
        \o <<"Enabled Agents:", "">>
        \o <<"  Default Agents (always enabled):">>
        \o Lines([k \in 1..Len(DEFAULT_AGENTS) |-> DefaultLine(DEFAULT_AGENTS[k])])
        \o <<"">>
        \o (IF optional # <<>>
            THEN <<"  Optional Agents (detected):">> \o Lines([k \in 1..Len(optional) |-> OptionalLines(optional[k])])
            ELSE <<>>)
        \o <<"">>
        \o <<"  Agents you might want to consider:">>
        \o Lines([k \in 1..Len(SortedNotEnabled(not_enabled)) |-> NotEnabledLines((SortedNotEnabled(not_enabled))[k])])
        \o <<"">>

---------------------------------------------------------------------------
(* CopilotProjectAnalyzer.                                                 *)

\* _detect_languages if it added the count of every extension, also of
\* those without a file
Copilot_detect_languages_unguarded(t, counter) ==
    LET Loop[i \in 1..(Len(Copilot_extensions) + 1)] ==
            IF i = 1 THEN counter
            ELSE CounterAdd(Loop[i - 1], Copilot_extensions[i - 1][2],
                     CountEntries(t, RGlob(t, "*" \o Copilot_extensions[i - 1][1])))
    IN  Loop[Len(Copilot_extensions) + 1]

\* CopilotProjectAnalyzer._detect_languages: the new self.detected_languages
Copilot_detect_languages(t, counter) ==
    CountByExtension(t, Copilot_extensions, counter)

RECURSIVE MatchedFiles(_, _)
\* CopilotProjectAnalyzer._detect_languages: what it adds to self.file_count
MatchedFiles(t, extensions) ==
    IF Len(extensions) = 0 THEN 0
    ELSE CountEntries(t, RGlob(t, "*" \o extensions[1][1]))
             + MatchedFiles(t, Tail(extensions))

Copilot_languages_files(t) == MatchedFiles(t, Copilot_extensions)

\* the frameworks dict of CopilotProjectAnalyzer._check_package_json
Copilot_package_frameworks ==
    << <<"react", "React">>, <<"vue", "Vue">>, <<"angular", "@angular">>,
       <<"express", "Express">>, <<"fastify", "Fastify">>,
       <<"next", "Next.js">>, <<"nest", "NestJS">> >>

Copilot_check_package_json(t, fws) ==
    IF CanLoadJson(t, "package.json")
    THEN fws \cup {pair[2] : pair \in
                     {q \in Elems(Copilot_package_frameworks) :
                         \E dep \in JsonDeps(t, "package.json") : Contains(q[1], dep)}}
    ELSE fws

\* the readers that add fw.title() for each indicator found in the text
TitledIndicators(t, name, indicators, fws) ==
    IF CanReadText(t, name)
    THEN fws \cup {Title(fw) : fw \in
                     {x \in Elems(indicators) : Contains(x, ManifestText(t, name))}}
    ELSE fws

Copilot_check_requirements(t, fws) ==
    TitledIndicators(t, "requirements.txt",
        <<"django", "flask", "fastapi", "pytorch", "tensorflow">>, fws)

Copilot_check_gemfile(t, fws) ==
    IF CanReadText(t, "Gemfile") /\ Contains("rails", ManifestText(t, "Gemfile"))
    THEN fws \cup {"Rails"} ELSE fws

Copilot_check_go_mod(t, fws) ==
    TitledIndicators(t, "go.mod", <<"gin", "echo", "fiber">>, fws)

\* CopilotProjectAnalyzer._detect_frameworks: the new self.detected_frameworks
Copilot_detect_frameworks(t, fws) ==
    LET f1 == IF ManifestExists(t, "package.json")
              THEN Copilot_check_package_json(t, fws) ELSE fws
        f2 == IF ManifestExists(t, "requirements.txt")
              THEN Copilot_check_requirements(t, f1) ELSE f1
        f3 == IF ManifestExists(t, "Gemfile")
              THEN Copilot_check_gemfile(t, f2) ELSE f2
    IN  IF ManifestExists(t, "go.mod") THEN Copilot_check_go_mod(t, f3) ELSE f3

\* CopilotProjectAnalyzer._detect_patterns: the new self.detected_patterns
Copilot_detect_patterns(t, found) == PatternsFound(t, Copilot_patterns_to_check, found)

\* the authors `git shortlog -sn` summarises: those of the history when
\* the standard input is a terminal; otherwise it summarises the log it
\* reads from the standard input, here an empty one
ShortlogListed(g) == IF g.stdin = "terminal" THEN Elems(g.commits) ELSE {}

RECURSIVE ShortlogStdout(_)
\* the output of `git shortlog -sn`: one line per author summarised
ShortlogStdout(authors) ==
    IF authors = {} THEN ""
    ELSE LET a == CHOOSE x \in authors : TRUE
         IN  "     1\t" \o a \o "\n" \o ShortlogStdout(authors \ {a})

\* _is_team_repo if it asked for more than three contributors
Copilot_is_team_repo_above_three(t, g) ==
    IF GitRaises(t, g) THEN FALSE
    ELSE Len(Split(Strip(GitStdout(g, ShortlogStdout(ShortlogListed(g)))), "\n")) > 3

\* CopilotProjectAnalyzer._is_team_repo; the exit status is not looked at
Copilot_is_team_repo(t, g) ==
    IF GitRaises(t, g) THEN FALSE
    ELSE Len(Split(Strip(GitStdout(g, ShortlogStdout(ShortlogListed(g)))), "\n")) >= 3

core_agents ==
    <<"Security Agent", "Logic Agent", "Test Agent", "Doc Agent", "Data Agent",
      "Infrastructure Agent">>

\* the conditions of CopilotProjectAnalyzer._recommend_agents, one per
\* optional agent, in the order of the appends
Copilot_condition(agent, root, t, g, fws, pats, files) ==
    CASE agent = "Performance Agent" ->
           \/ "api" \in pats
           \/ Contains("backend", Lower(root))
           \/ \E fw \in {"FastAPI", "Flask", "Express", "Fastify"} : fw \in fws
      [] agent = "Refactor Agent" -> files > 50
      [] agent = "Observability Agent" ->
           \/ "api" \in pats /\ "docker" \in pats
           \/ \E fw \in {"prometheus", "datadog"} : Contains(fw, StrOfSet(fws))
      [] agent = "Research Agent" ->
           \E fw \in {"Pytorch", "Tensorflow", "Transformers"} : fw \in fws
      [] agent = "DevEx Agent" -> Copilot_is_team_repo(t, g)
      [] agent = "UX/Accessibility Agent" ->
           \/ "frontend" \in pats
           \/ \E fw \in {"React", "Vue", "Angular", "Next.js"} : fw \in fws
      [] agent = "Error Handling Agent" -> files > 20
      [] agent = "Dependency Agent" ->
           \E f \in {"package.json", "requirements.txt", "Cargo.toml", "go.mod", "Gemfile"} :
               Exists(t, f)
      [] agent = "Build Agent" -> "ci_cd" \in pats
      [] agent = "Cost Optimization Agent" ->
           \/ \E f \in {"serverless.yml", "lambda", ".aws", "terraform"} : Exists(t, f)
           \/ Contains("serverless", Lower(StrOfSet(fws)))
      [] agent = "Knowledge Agent" ->
           \E d \in {"docs/", "wiki/", "documentation/"} : Exists(t, d)
      [] agent = "Ethics & Compliance Agent" ->
           \E d \in {"compliance", "hipaa", "gdpr", "legal"} : Exists(t, d)
      [] agent = "Benchmark Agent" -> Contains("benchmark", Lower(StrOfSet(pats)))
      [] agent = "Security Red Team Agent" -> "api" \in pats

Copilot_optional_order ==
    <<"Performance Agent", "Refactor Agent", "Observability Agent",
      "Research Agent", "DevEx Agent", "UX/Accessibility Agent",
      "Error Handling Agent", "Dependency Agent", "Build Agent",
      "Cost Optimization Agent", "Knowledge Agent", "Ethics & Compliance Agent",
      "Benchmark Agent", "Security Red Team Agent">>

\* CopilotProjectAnalyzer._recommend_agents
Copilot_recommend_agents(root, t, g, fws, pats, files) ==
    [core |-> core_agents,
     optional |-> SelectSeq(Copilot_optional_order,
                      LAMBDA a : Copilot_condition(a, root, t, g, fws, pats, files))]

\* analyze(), lines 45-50: whether mkdir and open(output_file, 'w') succeed
CanSaveAnalysis(t) ==
    /\ t.kind = "dir"
    /\ ~IsFile(t, <<".copilot">>)
    /\ <<".copilot", "analysis.json">> \in Entries(t)
           => /\ IsFile(t, <<".copilot", "analysis.json">>)
              /\ FileAt(t, <<".copilot", "analysis.json">>).mode = "ok"

\* analyze(), lines 45-50: the tree with .copilot/analysis.json written
SaveAnalysis(t) ==
    [t EXCEPT !.files =
        {f \in t.files : f.path # <<".copilot", "analysis.json">>}
            \cup {File(<<".copilot", "analysis.json">>, "ok", "{\n}",
                       [valid |-> TRUE, deps |-> {}, dev |-> {}])}]

---------------------------------------------------------------------------
(* The inputs of the model.                                                *)

\* the files a tree is put together from
CandidateFiles ==
    { File(<<"src", "api", "h.py">>, "ok", "a\nb\n", NoJson),
      File(<<"Dockerfile">>, "ok", "FROM x\n", NoJson),
      File(<<"lib", "logging", "l.txt">>, "ok", "x", NoJson),
      File(<<"package.json">>, "ok", "{\n}\n",
           [valid |-> TRUE, deps |-> {"preact", "lodash"}, dev |-> {}]),
      File(<<"main.go">>, "ok", "package main\n", NoJson),
      File(<<"blob.bin">>, "ok", "~\n~\n~", NoJson),
      File(<<"secret.txt">>, "denied", "k\n", NoJson),
      File(<<"requirements.txt">>, "ok", "Flask\n", NoJson),
      File(<<"web", "components", "App.jsx">>, "ok", "x\n", NoJson),
      File(<<"build", "api", "r.txt">>, "ok", "r\n", NoJson) }

\* no two files of a tree share a path, and no file lies below another file
WellFormed(files) ==
    \A f, h \in files :
        f # h => /\ f.path # h.path
                 /\ ~(Len(f.path) < Len(h.path) /\ SubSeq(h.path, 1, Len(f.path)) = f.path)

\* the numbers of bulk files tried
BulkCounts == {0, 24, 48}

\* one .py file, one .go file and a requirements manifest listing flask
PolyglotFiles ==
    { File(<<"app.py">>, "ok", "x = 1\n", NoJson),
      File(<<"main.go">>, "ok", "package main\n", NoJson),
      File(<<"requirements.txt">>, "ok", "Flask\n", NoJson) }

\* a source file below a dependency cache
VendoredFiles == { File(<<"node_modules", "api", "x.js">>, "ok", "x\n", NoJson) }

\* a package.json that is no JSON, next to a requirements manifest
MalformedManifestFiles ==
    { File(<<"package.json">>, "ok", "{", NoJson),
      File(<<"requirements.txt">>, "ok", "Flask\n", NoJson) }

\* a requirements manifest that cannot be opened, next to a Gemfile
UnreadableManifestFiles ==
    { File(<<"requirements.txt">>, "denied", "Flask\n", NoJson),
      File(<<"Gemfile">>, "ok", "gem 'rails'\n", NoJson) }

\* a Gemfile alone
RailsFiles == { File(<<"Gemfile">>, "ok", "gem 'rails'\n", NoJson) }

\* a requirements manifest listing fastapi
FastapiFiles == { File(<<"requirements.txt">>, "ok", "fastapi\n", NoJson) }

\* a text file whose content holds keywords of the rules
NotesFiles == { File(<<"notes.txt">>, "ok", "api ml benchmark\n", NoJson) }

\* files that only a later glob of their tags matches
LaterGlobFiles ==
    { File(<<"app", "routes", "r.txt">>, "ok", "get\n", NoJson),
      File(<<"ml", "inference", "run.txt">>, "ok", "go\n", NoJson),
      File(<<"docker-compose.yml">>, "ok", "services:\n", NoJson) }

\* the trees of more than MaxFiles files or of files met nowhere else
ScenarioTrees ==
    { [kind |-> "dir", files |-> fs, bulk |-> 0] :
          fs \in {PolyglotFiles, VendoredFiles, MalformedManifestFiles,
                  UnreadableManifestFiles, RailsFiles, FastapiFiles, NotesFiles,
                  LaterGlobFiles} }

Trees ==
    { [kind |-> "dir", files |-> fs, bulk |-> b] :
          fs \in {x \in SUBSET CandidateFiles : Cardinality(x) <= MaxFiles /\ WellFormed(x)},
          b \in BulkCounts }
    \cup ScenarioTrees
    \cup { [kind |-> k, files |-> {}, bulk |-> 0] : k \in {"missing", "file"} }

\* Path(repo_path).resolve(): a root none of whose directories carries an
\* ignored name, and a root below a directory called build
Roots == {"/work/app", "/srv/build/Backend"}

Digit(i) == SubSeq("0123456789", i + 1, i + 1)
Author(i) == "dev" \o Digit(i) \o "@x.io"

\* a history in which n authors have committed, the first of them twice
CommitLog(n) == [i \in 1..(IF n = 0 THEN 0 ELSE n + 1) |-> Author(IF i > n THEN 1 ELSE i)]

GitAnswers ==
    { [result |-> r, commits |-> <<>>, stdin |-> "terminal"] :
          r \in {"exit", "absent", "timeout"} }
    \cup { [result |-> "ok", commits |-> CommitLog(n), stdin |-> "terminal"] :
              n \in 0..MaxAuthors }
    \cup { [result |-> "ok", commits |-> CommitLog(MaxAuthors), stdin |-> "empty"] }

\* the repositories tried, each a tree and the answer git gives in it: a
\* tree of at most one file with every answer, and every tree outside a git
\* repository and with a history of MaxAuthors authors
Repositories ==
    { r \in Trees \X GitAnswers :
          \/ Cardinality(r[1].files) + r[1].bulk <= 1
          \/ r[2] \in { [result |-> "exit", commits |-> <<>>, stdin |-> "terminal"],
                        [result |-> "ok", commits |-> CommitLog(MaxAuthors),
                         stdin |-> "terminal"] } }

\* the Signal Snapshot: the fields of the object the report shows
Snapshot ==
    [languages |-> detected_languages, frameworks |-> detected_frameworks,
     patterns |-> detected_patterns, file_count |-> file_count,
     line_count |-> line_count, contributor_count |-> contributors]

NoFirst == [set |-> FALSE, snapshot |-> <<>>, agents |-> <<>>, reasons |-> <<>>]

---------------------------------------------------------------------------
(* The state machine.                                                      *)

NoLast == [name |-> "", raised |-> FALSE, answer |-> ""]

\* no MultiAgentFrameworkInstaller has been built
NoInstaller ==
    /\ host = [python |-> TRUE, disk |-> "free"]
    /\ timestamp = ""
    /\ AGENTS = <<>>
    /\ installer_enabled_agents = <<>>
    /\ agent_reasons = <<>>
    /\ response = ""
    /\ step = 0
    /\ run_result = "none"
    /\ executed = <<>>
    /\ last = NoLast
    /\ created = {}

\* AgentDetector(repo_path) or CopilotProjectAnalyzer(repo_path), just built
Init ==
    /\ tool \in {"detector", "copilot"}
    /\ repo_path \in Roots
    /\ \E r \in Repositories : tree = r[1] /\ git = r[2]
    /\ detected_languages = <<>>
    /\ detected_frameworks = {}
    /\ detected_patterns = {}
    /\ file_count = 0
    /\ line_count = 0
    /\ contributors = 0
    /\ runs = 0
    /\ pc = "idle"
    /\ outcome = "none"
    /\ collectors_run = <<>>
    /\ enabled_agents = <<>>
    /\ reasons = <<>>
    /\ recommended = [core |-> <<>>, optional |-> <<>>]
    /\ first = NoFirst
    /\ report = <<>>
    /\ NoInstaller

\* AgentDetector.detect(), lines 123-130: the five collectors
Detect_collect ==
    /\ UNCHANGED installer_vars
    /\ tool = "detector"
    /\ pc = "idle"
    /\ runs < MaxRuns
    /\ detected_languages' = Detector_detect_languages(tree, detected_languages)
    /\ detected_frameworks' = Detector_detect_frameworks(tree, detected_frameworks)
    /\ detected_patterns' = Detector_detect_patterns(tree, detected_patterns)
    /\ \E added \in {Detector_detect_structure(repo_path, tree)} :
           /\ file_count' = file_count + added.files
           /\ line_count' = line_count + added.lines
    /\ contributors' = Detector_detect_git_activity(tree, git, contributors)
    /\ collectors_run' = <<"_detect_languages", "_detect_frameworks", "_detect_patterns",
                           "_detect_structure", "_detect_git_activity">>
    /\ runs' = runs + 1
    /\ pc' = "evaluate"
    /\ UNCHANGED <<tool, repo_path, tree, git, outcome, enabled_agents, reasons,
                   recommended, first, report>>

\* the evaluation if it consumed the file count it reads
Detect_evaluate_consuming ==
    /\ UNCHANGED installer_vars
    /\ tool = "detector"
    /\ pc = "evaluate"
    /\ \E decisions \in {Detector_decisions(tree, detected_frameworks,
                             detected_patterns, file_count, contributors)} :
           /\ enabled_agents' = Detector_enabled_agents(decisions)
           /\ reasons' = Detector_reasons(decisions)
    /\ outcome' = "returned"
    /\ pc' = "idle"
    /\ file_count' = 0
    /\ first' = IF first.set THEN first
                ELSE [set |-> TRUE, snapshot |-> Snapshot,
                      agents |-> enabled_agents', reasons |-> reasons']
    /\ UNCHANGED <<tool, repo_path, tree, git, detected_languages, detected_frameworks,
                   detected_patterns, line_count, contributors, runs,
                   collectors_run, recommended, report>>

\* AgentDetector.detect(), lines 132-146: the defaults, then every rule
Detect_evaluate ==
    /\ UNCHANGED installer_vars
    /\ tool = "detector"
    /\ pc = "evaluate"
    /\ \E decisions \in {Detector_decisions(tree, detected_frameworks,
                             detected_patterns, file_count, contributors)} :
           /\ enabled_agents' = Detector_enabled_agents(decisions)
           /\ reasons' = Detector_reasons(decisions)
    /\ outcome' = "returned"
    /\ pc' = "idle"
    /\ first' = IF first.set THEN first
                ELSE [set |-> TRUE, snapshot |-> Snapshot,
                      agents |-> enabled_agents', reasons |-> reasons']
    /\ UNCHANGED <<tool, repo_path, tree, git, detected_languages, detected_frameworks,
                   detected_patterns, file_count, line_count, contributors, runs,
                   collectors_run, recommended, report>>

\* CopilotProjectAnalyzer.analyze()
Analyze ==
    /\ UNCHANGED installer_vars
    /\ tool = "copilot"
    /\ runs < MaxRuns
    /\ detected_languages' = Copilot_detect_languages(tree, detected_languages)
    /\ file_count' = file_count + Copilot_languages_files(tree)
    /\ detected_frameworks' = Copilot_detect_frameworks(tree, detected_frameworks)
    /\ detected_patterns' = Copilot_detect_patterns(tree, detected_patterns)
    /\ collectors_run' = <<"_detect_languages", "_detect_frameworks", "_detect_patterns">>
    /\ UNCHANGED <<tool, repo_path, git, line_count, contributors, pc, enabled_agents,
                   reasons, report>>
    /\ \E rec \in {Copilot_recommend_agents(repo_path, tree, git, detected_frameworks',
                       detected_patterns', file_count')} :
           IF CanSaveAnalysis(tree)
           THEN /\ tree' = SaveAnalysis(tree)
                /\ recommended' = rec
                /\ outcome' = "returned"
                /\ first' = IF first.set THEN first
                            ELSE [set |-> TRUE, snapshot |-> Snapshot',
                                  agents |-> rec.core \o rec.optional, reasons |-> <<>>]
           ELSE /\ outcome' = "raised"
                /\ UNCHANGED <<tree, recommended, first>>
    /\ runs' = runs + 1

\* main(), lines 502-504: the report of what detect() returned
Generate_report ==
    /\ UNCHANGED installer_vars
    /\ tool = "detector"
    /\ pc = "idle"
    /\ runs > 0
    /\ report' = generate_report(detected_languages, detected_frameworks,
                      detected_patterns, file_count, line_count, contributors,
                      enabled_agents, reasons)
    /\ pc' = "reported"
    /\ UNCHANGED <<tool, repo_path, tree, git, detected_languages, detected_frameworks,
                   detected_patterns, file_count, line_count, contributors, runs,
                   outcome, collectors_run, enabled_agents, reasons, recommended, first>>

Next == Detect_collect \/ Detect_evaluate \/ Analyze \/ Generate_report

Spec == Init /\ [][Next]_vars

---------------------------------------------------------------------------
(* MultiAgentFrameworkInstaller (scripts/implement_framework.py).          *)
(*                                                                         *)
(* The installer works in the tree of the repository.  `created` holds the *)
(* paths of the directories and files its steps make, whose content is     *)
(* text from templates; CLAUDE.md and its backup are kept in `tree` with   *)
(* their content.  A root of kind "unsearchable" is a directory the user   *)
(* may list but not search (mode r--): stat() of a path below it raises    *)
(* PermissionError, and nothing can be made in it.  A root of kind "deep"  *)
(* holds nothing but a chain of directories whose path grows longer than   *)
(* PATH_MAX: os.scandir() of its far end raises OSError.                   *)
(*                                                                         *)
(* host.python  whether an executable named python is on the PATH          *)
(* host.disk    "free", or "low": less than 1 GB is free                   *)

Installer_DEFAULT_AGENTS ==
    <<"data-agent", "logic-agent", "test-agent", "security-agent", "infra-agent",
      "doc-agent">>

\* the names of the steps list of run(), in its order
steps ==
    <<"Checking prerequisites", "Detecting codebase and required agents",
      "Creating directory structure", "Installing agent configurations",
      "Setting up validation scripts", "Configuring Git hooks",
      "Creating slash commands", "Generating Claude configuration",
      "Setting up GitHub Copilot", "Creating helper scripts",
      "Running initial tests", "Generating documentation">>

\* input() at the end of the input: it raises EOFError
EndOfInput == "<EOF>"

\* ask_continue() if it compared the answer as typed
ask_continue_as_typed(typed) == typed = "y"

\* ask_continue(): input(...).lower() == 'y'
ask_continue(typed) == Lower(typed) = "y"

\* detect_agents, lines 115-117, if any answer but "n" confirmed
confirmed_unless_n(typed) == Strip(Lower(typed)) # "n"

\* detect_agents, lines 115-117: input().strip().lower() is 'y'
confirmed(typed) == Strip(Lower(typed)) = "y"

\* stat() of a path below the root raises PermissionError
StatRaises(t) == t.kind = "unsearchable"

\* rglob() below the root raises OSError
ScanRaises(t) == t.kind = "deep"

\* (self.repo_path / ".git").exists(): a repository, a .git entry in the
\* tree, or the directory `git init` or setup_git_hooks has made
GitDirExists(t, g, made) ==
    g.result = "ok" \/ <<".git">> \in Entries(t) \/ ".git" \in made

\* mkdir(parents=True, exist_ok=True) below the root raises: nothing can be
\* made in the root, or the first component is a regular file
MkdirRaises(t, first_component) == StatRaises(t) \/ IsFile(t, <<first_component>>)

\* check_prerequisites: whether it raises, and what it has made by then
check_prerequisites(t, g, h, made) ==
    IF StatRaises(t) THEN [raised |-> TRUE, created |-> made]
    ELSE IF ~GitDirExists(t, g, made) /\ g.result = "absent"
    THEN [raised |-> TRUE, created |-> made]
    ELSE [raised |-> h.disk = "low",
          created |-> IF GitDirExists(t, g, made) THEN made ELSE made \cup {".git"}]

\* the directories list of create_directory_structure, with the parents
\* that mkdir(parents=True) makes on the way
directories(agents) ==
    {".claude", ".claude/agents", ".claude/skills", ".claude/commands",
     ".claude/templates", ".claude/hooks", ".claude/scripts", ".claude/metrics"}
    \cup UNION { { ".claude/skills/" \o a, ".claude/skills/" \o a \o "/PATTERNS",
                   ".claude/skills/" \o a \o "/CHECKLISTS",
                   ".claude/skills/" \o a \o "/VALIDATION",
                   ".claude/skills/" \o a \o "/SCRIPTS" } : a \in Elems(agents) }
    \cup {"scripts", "scripts/core", "scripts/utils", "scripts/tools", "tests",
          "tests/unit", "tests/integration", "docs", "docs/implementation",
          "docs/strategies", "docs/audits", "docs/archive"}

\* create_directory_structure: the first mkdir raises or all succeed
create_directory_structure(t, agents, made) ==
    IF MkdirRaises(t, ".claude") THEN [raised |-> TRUE, created |-> made]
    ELSE [raised |-> FALSE, created |-> made \cup directories(agents)]

\* what create_agent_skill, create_agent_patterns and create_agent_checklists
\* write for one agent
agent_files(a) ==
    { ".claude/skills/" \o a \o "/SKILL.md",
      ".claude/skills/" \o a \o "/PATTERNS",
      ".claude/skills/" \o a \o "/PATTERNS/main.md",
      ".claude/skills/" \o a \o "/CHECKLISTS",
      ".claude/skills/" \o a \o "/CHECKLISTS/review.md" }

RECURSIVE install_agents(_, _, _)
\* install_agents: for agent in self.AGENTS; SKILL.md is written into a
\* directory that has to be there
install_agents(t, agents, made) ==
    IF agents = <<>> THEN [raised |-> FALSE, created |-> made]
    ELSE IF StatRaises(t) \/ (".claude/skills/" \o agents[1]) \notin made
    THEN [raised |-> TRUE, created |-> made]
    ELSE install_agents(t, Tail(agents), made \cup agent_files(agents[1]))

RECURSIVE create_validation_scripts(_, _, _)
\* create_validation_scripts: validate.py of every agent
create_validation_scripts(t, agents, made) ==
    IF agents = <<>> THEN [raised |-> FALSE, created |-> made]
    ELSE IF StatRaises(t) \/ (".claude/skills/" \o agents[1]) \notin made
    THEN [raised |-> TRUE, created |-> made]
    ELSE create_validation_scripts(t, Tail(agents),
             made \cup {".claude/skills/" \o agents[1] \o "/validate.py"})

\* setup_git_hooks: .git/hooks and the two hooks
setup_git_hooks(t, made) ==
    IF MkdirRaises(t, ".git") THEN [raised |-> TRUE, created |-> made]
    ELSE [raised |-> FALSE,
          created |-> made \cup {".git", ".git/hooks", ".git/hooks/pre-commit",
                                 ".git/hooks/post-commit"}]

\* create_slash_commands: the three commands, written into .claude/commands
create_slash_commands(t, made) ==
    IF StatRaises(t) \/ ".claude/commands" \notin made
    THEN [raised |-> TRUE, created |-> made]
    ELSE [raised |-> FALSE,
          created |-> made \cup {".claude/commands/review.md",
                                 ".claude/commands/consensus.md",
                                 ".claude/commands/agent-status.md"}]

\* the text create_claude_config writes
claude_content == "# Multi-Agent Consensus System Configuration\n"

\* the name of the backup of CLAUDE.md
backup_name(stamp) == "CLAUDE.md.backup." \o stamp

\* the tree with the regular file `name` of the root holding `bytes`
WriteFile(t, name, bytes) ==
    [t EXCEPT !.files = {f \in t.files : f.path # <<name>>}
                            \cup {File(<<name>>, "ok", bytes, NoJson)}]

\* create_claude_config if it wrote CLAUDE.md before it made the backup
create_claude_config_backup_last(t, stamp) ==
    IF StatRaises(t) THEN [raised |-> TRUE, tree |-> t]
    ELSE IF ~Exists(t, "CLAUDE.md")
    THEN [raised |-> FALSE, tree |-> WriteFile(t, "CLAUDE.md", claude_content)]
    ELSE IF ~IsFile(t, <<"CLAUDE.md">>) THEN [raised |-> TRUE, tree |-> t]
    ELSE IF FileAt(t, <<"CLAUDE.md">>).mode # "ok" THEN [raised |-> TRUE, tree |-> t]
    ELSE LET written == WriteFile(t, "CLAUDE.md", claude_content)
         IN  [raised |-> FALSE,
              tree |-> WriteFile(written, backup_name(stamp),
                           FileAt(written, <<"CLAUDE.md">>).bytes)]

\* create_claude_config, lines 777-784: shutil.copy of an existing
\* CLAUDE.md to the backup, which raises for a directory and for a file
\* that may not be read, then write_text
create_claude_config(t, stamp) ==
    IF StatRaises(t) THEN [raised |-> TRUE, tree |-> t]
    ELSE IF ~Exists(t, "CLAUDE.md")
    THEN [raised |-> FALSE, tree |-> WriteFile(t, "CLAUDE.md", claude_content)]
    ELSE IF ~IsFile(t, <<"CLAUDE.md">>) THEN [raised |-> TRUE, tree |-> t]
    ELSE IF FileAt(t, <<"CLAUDE.md">>).mode # "ok" THEN [raised |-> TRUE, tree |-> t]
    ELSE LET saved == WriteFile(t, backup_name(stamp),
                          FileAt(t, <<"CLAUDE.md">>).bytes)
         IN  [raised |-> FALSE, tree |-> WriteFile(saved, "CLAUDE.md", claude_content)]

\* setup_github_copilot: .github/copilot; the template it would copy is not
\* part of the distribution
setup_github_copilot(t, made) ==
    IF MkdirRaises(t, ".github") THEN [raised |-> TRUE, created |-> made]
    ELSE [raised |-> FALSE, created |-> made \cup {".github", ".github/copilot"}]

\* create_helper_scripts: two scripts, written into .claude/scripts
create_helper_scripts(t, made) ==
    IF StatRaises(t) \/ ".claude/scripts" \notin made
    THEN [raised |-> TRUE, created |-> made]
    ELSE [raised |-> FALSE,
          created |-> made \cup {".claude/scripts/consensus_report.py",
                                 ".claude/scripts/test_system.py"}]

\* run_tests: runs test_system.py with `python` if the script is there; a
\* failing script is tolerated, a missing executable is not
run_tests(t, h, made) ==
    [raised |-> StatRaises(t) \/ (".claude/scripts/test_system.py" \in made /\ ~h.python),
     created |-> made]

\* generate_documentation: the installation report in the root
generate_documentation(t, stamp, made) ==
    IF StatRaises(t) THEN [raised |-> TRUE, created |-> made]
    ELSE [raised |-> FALSE, created |-> made \cup {"INSTALLATION_REPORT_" \o stamp \o ".md"}]

---------------------------------------------------------------------------
(* The inputs and the state machine of the installer.                      *)

\* a CLAUDE.md of the user
OwnClaudeMd == File(<<"CLAUDE.md">>, "ok", "# mine\n", NoJson)

\* what may lie at CLAUDE.md before the installation: nothing, a file, a
\* file that may not be read, a directory
ClaudeMdBefore ==
    { {}, {OwnClaudeMd},
      {File(<<"CLAUDE.md">>, "denied", "# mine\n", NoJson)},
      {File(<<"CLAUDE.md", "notes.txt">>, "ok", "n\n", NoJson)} }

\* sources that enable optional agents
InstallerSources ==
    { {}, {File(<<"main.go">>, "ok", "package main\n", NoJson),
           File(<<"Dockerfile">>, "ok", "FROM x\n", NoJson)} }

InstallerTrees ==
    { [kind |-> "dir", files |-> src \cup md, bulk |-> 0] :
          src \in InstallerSources, md \in ClaudeMdBefore }
    \cup { [kind |-> "dir", files |-> {File(<<".claude">>, "ok", "x\n", NoJson)}, bulk |-> 0],
           [kind |-> "dir", files |-> {File(<<".git">>, "ok", "gitdir: ../w\n", NoJson),
                                       OwnClaudeMd}, bulk |-> 0],
           [kind |-> "unsearchable", files |-> {}, bulk |-> 0],
           [kind |-> "deep", files |-> {}, bulk |-> 0] }

InstallerGit ==
    { [result |-> "ok", commits |-> CommitLog(MaxAuthors), stdin |-> "terminal"],
      [result |-> "exit", commits |-> <<>>, stdin |-> "terminal"],
      [result |-> "absent", commits |-> <<>>, stdin |-> "terminal"] }

Hosts ==
    { [python |-> TRUE, disk |-> "free"], [python |-> FALSE, disk |-> "free"],
      [python |-> TRUE, disk |-> "low"] }

\* datetime.now().strftime("%Y%m%d_%H%M%S")
Timestamps == {"20240131_235959"}

\* what the user may type at a prompt
Answers == {"y", "Y", "n", " y", ""}

\* MultiAgentFrameworkInstaller(repo_path), and run() entered
InstallerInit ==
    /\ tool = "installer"
    /\ repo_path = "/work/app"
    /\ tree \in InstallerTrees
    /\ git \in InstallerGit
    /\ detected_languages = <<>>
    /\ detected_frameworks = {}
    /\ detected_patterns = {}
    /\ file_count = 0
    /\ line_count = 0
    /\ contributors = 0
    /\ runs = 0
    /\ pc = "idle"
    /\ outcome = "none"
    /\ collectors_run = <<>>
    /\ enabled_agents = <<>>
    /\ reasons = <<>>
    /\ recommended = [core |-> <<>>, optional |-> <<>>]
    /\ first = NoFirst
    /\ report = <<>>
    /\ host \in Hosts
    /\ timestamp \in Timestamps
    /\ AGENTS = <<>>
    /\ installer_enabled_agents = <<>>
    /\ agent_reasons = <<>>
    /\ response = ""
    /\ step = 1
    /\ run_result = "running"
    /\ executed = <<>>
    /\ last = NoLast
    /\ created = {}

\* the fields of self.detector and what detect() returned
detector_fields ==
    <<detected_languages, detected_frameworks, detected_patterns, file_count,
      line_count, contributors, runs, outcome, collectors_run, enabled_agents, reasons>>

\* the fields detect_agents assigns
agent_fields == <<AGENTS, installer_enabled_agents, agent_reasons, response>>

\* what no step of the installer changes
fixed == <<tool, repo_path, git, pc, recommended, first, report, host, timestamp>>

\* run(), lines 64-73: the loop goes to the next step, and run() returns
\* True after the last
Advance ==
    /\ step' = step + 1
    /\ run_result' = IF step = Len(steps) THEN "True" ELSE run_result

\* run(), lines 64-73: the step has been called; if it raised, ask_continue
\* decides between the next step and `return False`, unless its input()
\* raises, which ends run() with that exception
Handle(raised) ==
    /\ executed' = Append(executed, steps[step])
    /\ IF ~raised
       THEN /\ last' = [name |-> steps[step], raised |-> FALSE, answer |-> ""]
            /\ Advance
       ELSE \E typed \in Answers \cup {EndOfInput} :
                /\ last' = [name |-> steps[step], raised |-> TRUE, answer |-> typed]
                /\ IF typed = EndOfInput
                   THEN run_result' = "raised" /\ UNCHANGED step
                   ELSE IF ask_continue(typed)
                   THEN Advance
                   ELSE run_result' = "False" /\ UNCHANGED step

\* the loop of run() is at step number k
At(k) == tool = "installer" /\ run_result = "running" /\ step = k

\* a step that only makes directories and files
Makes(result) ==
    /\ created' = result.created
    /\ Handle(result.raised)
    /\ UNCHANGED <<fixed, tree, detector_fields, agent_fields>>

Step_check_prerequisites ==
    /\ At(1)
    /\ Makes(check_prerequisites(tree, git, host, created))

\* detect_agents, lines 104-121.  detect() raises before anything is
\* assigned: on a deep root in _detect_languages, at the first rglob(), on
\* an unsearchable root in _detect_frameworks, at the first exists()
Step_detect_agents ==
    /\ At(2)
    /\ UNCHANGED <<fixed, tree, created>>
    /\ IF ScanRaises(tree)
       THEN /\ collectors_run' = <<"_detect_languages">>
            /\ outcome' = "raised"
            /\ runs' = runs + 1
            /\ UNCHANGED <<detected_languages, detected_frameworks, detected_patterns,
                           file_count, line_count, contributors, enabled_agents,
                           reasons, agent_fields>>
            /\ Handle(TRUE)
       ELSE IF StatRaises(tree)
       THEN /\ detected_languages' = Detector_detect_languages(tree, detected_languages)
            /\ collectors_run' = <<"_detect_languages", "_detect_frameworks">>
            /\ outcome' = "raised"
            /\ runs' = runs + 1
            /\ UNCHANGED <<detected_frameworks, detected_patterns, file_count, line_count,
                           contributors, enabled_agents, reasons, agent_fields>>
            /\ Handle(TRUE)
       ELSE /\ detected_languages' = Detector_detect_languages(tree, detected_languages)
            /\ detected_frameworks' = Detector_detect_frameworks(tree, detected_frameworks)
            /\ detected_patterns' = Detector_detect_patterns(tree, detected_patterns)
            /\ \E added \in {Detector_detect_structure(repo_path, tree)} :
                   /\ file_count' = file_count + added.files
                   /\ line_count' = line_count + added.lines
            /\ contributors' = Detector_detect_git_activity(tree, git, contributors)
            /\ collectors_run' = <<"_detect_languages", "_detect_frameworks",
                                   "_detect_patterns", "_detect_structure",
                                   "_detect_git_activity">>
            /\ runs' = runs + 1
            /\ outcome' = "returned"
            /\ \E decisions \in {Detector_decisions(tree, detected_frameworks',
                                     detected_patterns', file_count', contributors')} :
                   /\ enabled_agents' = Detector_enabled_agents(decisions)
                   /\ reasons' = Detector_reasons(decisions)
            /\ agent_reasons' = reasons'
            /\ \E typed \in Answers \cup {EndOfInput} :
                   /\ response' = typed
                   /\ IF typed = EndOfInput \/ confirmed(typed)
                      THEN /\ AGENTS' = enabled_agents'
                           /\ installer_enabled_agents' = enabled_agents'
                      ELSE /\ AGENTS' = Installer_DEFAULT_AGENTS
                           /\ installer_enabled_agents' = Installer_DEFAULT_AGENTS
                   /\ Handle(typed = EndOfInput)

Step_create_directory_structure ==
    /\ At(3)
    /\ Makes(create_directory_structure(tree, AGENTS, created))

Step_install_agents ==
    /\ At(4)
    /\ Makes(install_agents(tree, AGENTS, created))

Step_create_validation_scripts ==
    /\ At(5)
    /\ Makes(create_validation_scripts(tree, AGENTS, created))

Step_setup_git_hooks ==
    /\ At(6)
    /\ Makes(setup_git_hooks(tree, created))

Step_create_slash_commands ==
    /\ At(7)
    /\ Makes(create_slash_commands(tree, created))

Step_create_claude_config ==
    /\ At(8)
    /\ \E result \in {create_claude_config(tree, timestamp)} :
           /\ tree' = result.tree
           /\ Handle(result.raised)
    /\ UNCHANGED <<fixed, created, detector_fields, agent_fields>>

Step_setup_github_copilot ==
    /\ At(9)
    /\ Makes(setup_github_copilot(tree, created))

Step_create_helper_scripts ==
    /\ At(10)
    /\ Makes(create_helper_scripts(tree, created))

Step_run_tests ==
    /\ At(11)
    /\ Makes(run_tests(tree, host, created))

Step_generate_documentation ==
    /\ At(12)
    /\ Makes(generate_documentation(tree, timestamp, created))

InstallerNext ==
    \/ Step_check_prerequisites
    \/ Step_detect_agents
    \/ Step_create_directory_structure
    \/ Step_install_agents
    \/ Step_create_validation_scripts
    \/ Step_setup_git_hooks
    \/ Step_create_slash_commands
    \/ Step_create_claude_config
    \/ Step_setup_github_copilot
    \/ Step_create_helper_scripts
    \/ Step_run_tests
    \/ Step_generate_documentation

SpecInstaller == InstallerInit /\ [][InstallerNext]_vars

---------------------------------------------------------------------------
(* APMInstaller (github-copilot/scripts/install_apm.py): update_gitignore. *)

\* update_gitignore: the text it adds
gitignore_entries ==
    "\n# APM / GitHub Copilot Configuration (User-Specific)\n.copilot/\n"
    \o ".vscode/copilot-settings.json\n\n# APM generated files\n.apm/\napm-cache/\n"

\* update_gitignore if it appended to every .gitignore it could read
update_gitignore_always_appending(t) ==
    IF ~Exists(t, ".gitignore")
    THEN [raised |-> FALSE, tree |-> WriteFile(t, ".gitignore", gitignore_entries)]
    ELSE IF ~IsFile(t, <<".gitignore">>) THEN [raised |-> TRUE, tree |-> t]
    ELSE LET f == FileAt(t, <<".gitignore">>)
         IN  IF f.mode # "ok" \/ ~DecodesStrictly(f.bytes)
             THEN [raised |-> TRUE, tree |-> t]
             ELSE [raised |-> FALSE,
                   tree |-> WriteFile(t, ".gitignore", f.bytes \o gitignore_entries)]

\* update_gitignore, lines 1619-1642.  open() raises for a directory and
\* for a file that may not be read, read() for bytes that are not text; a
\* file that holds ".copilot/" anywhere is left as it is, every other file
\* has the entries appended, and a missing file is written
update_gitignore(t) ==
    IF ~Exists(t, ".gitignore")
    THEN [raised |-> FALSE, tree |-> WriteFile(t, ".gitignore", gitignore_entries)]
    ELSE IF ~IsFile(t, <<".gitignore">>) THEN [raised |-> TRUE, tree |-> t]
    ELSE LET f == FileAt(t, <<".gitignore">>)
         IN  IF f.mode # "ok" \/ ~DecodesStrictly(f.bytes)
             THEN [raised |-> TRUE, tree |-> t]
             ELSE IF ~Contains(".copilot/", f.bytes)
             THEN [raised |-> FALSE,
                   tree |-> WriteFile(t, ".gitignore", f.bytes \o gitignore_entries)]
             ELSE [raised |-> FALSE, tree |-> t]

\* lines a .gitignore may hold: other entries, the marker itself, the marker
\* inside a longer path, near misses of the marker, a byte that is not text
GitignoreLines ==
    {"node_modules/", ".copilot/", "x.copilot/y", ".copilot", ".Copilot/", "~"}

RECURSIVE JoinLines(_)
\* the lines of q, each ended by a newline
JoinLines(q) ==
    IF Len(q) = 0 THEN "" ELSE Head(q) \o "\n" \o JoinLines(Tail(q))

\* the contents of a .gitignore of at most MaxLines lines, the last line
\* with or without its newline
GitignoreContents ==
    LET texts == {JoinLines(q) : q \in UNION {[1..n -> GitignoreLines] : n \in 0..MaxLines}}
    IN  texts \cup {SubSeq(x, 1, Len(x) - 1) : x \in texts \ {""}}

\* what may lie at .gitignore: nothing, a file, a file that may not be
\* read, a directory
GitignoreBefore ==
    { {} }
    \cup { {File(<<".gitignore">>, "ok", x, NoJson)} : x \in GitignoreContents }
    \cup { {File(<<".gitignore">>, "denied", "node_modules/\n", NoJson)},
           {File(<<".gitignore", "keep.txt">>, "ok", "k\n", NoJson)} }

ApmTrees ==
    { [kind |-> "dir", files |-> g \cup {File(<<"main.go">>, "ok", "package main\n", NoJson)},
       bulk |-> 0] : g \in GitignoreBefore }

\* APMInstaller(repo_path)
ApmInit ==
    /\ tool = "apm"
    /\ repo_path = "/work/app"
    /\ tree \in ApmTrees
    /\ git = [result |-> "absent", commits |-> <<>>, stdin |-> "terminal"]
    /\ detected_languages = <<>>
    /\ detected_frameworks = {}
    /\ detected_patterns = {}
    /\ file_count = 0
    /\ line_count = 0
    /\ contributors = 0
    /\ runs = 0
    /\ pc = "idle"
    /\ outcome = "none"
    /\ collectors_run = <<>>
    /\ enabled_agents = <<>>
    /\ reasons = <<>>
    /\ recommended = [core |-> <<>>, optional |-> <<>>]
    /\ first = NoFirst
    /\ report = <<>>
    /\ NoInstaller

\* one call of update_gitignore(), as the last step of run() makes it
Update_gitignore ==
    /\ tool = "apm"
    /\ runs < MaxRuns
    /\ \E result \in {update_gitignore(tree)} :
           /\ tree' = result.tree
           /\ outcome' = IF result.raised THEN "raised" ELSE "returned"
    /\ runs' = runs + 1
    /\ UNCHANGED <<tool, repo_path, git, detected_languages, detected_frameworks,
                   detected_patterns, file_count, line_count, contributors, pc,
                   collectors_run, enabled_agents, reasons, recommended, first, report>>
    /\ UNCHANGED installer_vars

ApmNext == Update_gitignore

SpecApm == ApmInit /\ [][ApmNext]_vars

---------------------------------------------------------------------------
(* Properties.                                                             *)

\* detect() has returned on this AgentDetector
DetectorReturned == tool = "detector" /\ pc = "idle" /\ runs > 0

\* analyze() has returned on this CopilotProjectAnalyzer
CopilotReturned == tool = "copilot" /\ runs > 0 /\ outcome = "returned"

\* C1: whatever the snapshot holds, the result of detect() contains the six
\* default agents, each with the reason "Default agent (enabled for all
\* codebases)", and the core list of analyze() is the six core agents.
C1_DefaultAgentsAlwaysEnabled ==
    /\ DetectorReturned =>
           /\ outcome = "returned"
           /\ \A a \in Elems(DEFAULT_AGENTS) :
                  /\ a \in Elems(enabled_agents)
                  /\ a \in DOMAIN reasons
                  /\ reasons[a] = DEFAULT_REASON
    /\ CopilotReturned => recommended.core = core_agents

\* a run over a snapshot with languages, frameworks and files that enabled
\* optional agents next to the defaults
C1_Witness ==
    /\ DetectorReturned
    /\ DOMAIN detected_languages # {}
    /\ detected_frameworks # {}
    /\ file_count > 0
    /\ Len(enabled_agents) > Len(DEFAULT_AGENTS)
    /\ \A a \in Elems(DEFAULT_AGENTS) : a \in Elems(enabled_agents)

\* the snapshot detect() builds on a new AgentDetector over the tree t
SnapshotOfNewDetector(root, t, g) ==
    [languages |-> Detector_detect_languages(t, <<>>),
     frameworks |-> Detector_detect_frameworks(t, {}),
     patterns |-> Detector_detect_patterns(t, {}),
     file_count |-> Detector_structure_files(root, t),
     line_count |-> Detector_structure_lines(root, t),
     contributor_count |-> Detector_detect_git_activity(t, g, 0)]

\* C2: the decision record depends on the snapshot alone: any other
\* repository whose first detect() builds the same snapshot gets the same
\* enabled agents and the same reasons.
C2_DecisionDependsOnlySnapshot ==
    (DetectorReturned /\ runs = 1 /\ tree.kind = "dir") =>
        \A other \in Trees :
            (/\ other.kind = "dir"
             /\ Detector_structure_files(repo_path, other) = file_count
             /\ SnapshotOfNewDetector(repo_path, other, git) = Snapshot)
            => \E decisions \in {Detector_decisions(other, detected_frameworks,
                                     detected_patterns, file_count, contributors)} :
                   /\ Detector_enabled_agents(decisions) = enabled_agents
                   /\ Detector_reasons(decisions) = reasons

C4_NoStateAcrossRuns ==
    (runs = 2 /\ pc = "idle" /\ outcome = "returned" /\ first.set) =>
        /\ detected_languages = first.snapshot.languages
        /\ file_count = first.snapshot.file_count
        /\ line_count = first.snapshot.line_count
        /\ tool = "detector" => enabled_agents = first.agents
        /\ tool = "copilot" => recommended.core \o recommended.optional = first.agents

\* C5: an optional agent is enabled whenever one predicate its rule
\* declares is satisfied: a file pattern, file type or file that matches,
\* a framework detected, file_count >= min_files, contributors >=
\* min_contributors.
C5_AnyDeclaredPredicateEnables ==
    DetectorReturned =>
        \A i \in 1..Len(OPTIONAL_AGENTS) :
            \A triggers \in {OPTIONAL_AGENT_TRIGGERS(OPTIONAL_AGENTS[i])} :
                (\/ /\ "file_patterns" \in triggers.keys
                    /\ \E k \in 1..Len(triggers.file_patterns) :
                           Glob(tree, triggers.file_patterns[k]) # {}
                 \/ /\ "file_types" \in triggers.keys
                    /\ \E k \in 1..Len(triggers.file_types) :
                           RGlob(tree, "*" \o triggers.file_types[k]) # {}
                 \/ /\ "frameworks" \in triggers.keys
                    /\ \E k \in 1..Len(triggers.frameworks) :
                           triggers.frameworks[k] \in detected_frameworks
                 \/ /\ "min_files" \in triggers.keys
                    /\ file_count >= triggers.min_files
                 \/ /\ "min_contributors" \in triggers.keys
                    /\ contributors >= triggers.min_contributors)
                => OPTIONAL_AGENTS[i] \in Elems(enabled_agents)

\* C6: the team-scale agent is enabled exactly when the contributor count
\* is at least 3: devex-agent against self.contributors, DevEx Agent
\* against the number of authors the version-control tool lists.
C6_TeamAgentBoundaryAtThree ==
    /\ DetectorReturned =>
           ("devex-agent" \in Elems(enabled_agents) <=> contributors >= 3)
    /\ CopilotReturned =>
           ("DevEx Agent" \in Elems(recommended.optional)
               <=> (git.result = "ok" /\ Cardinality(ShortlogListed(git)) >= 3))

\* a history of exactly three authors, and the team-scale agent enabled
C6_Witness ==
    /\ DetectorReturned
    /\ contributors = 3
    /\ Cardinality(Elems(git.commits)) = 3
    /\ "devex-agent" \in Elems(enabled_agents)
    /\ reasons["devex-agent"] = "Detected team-scale repository"

\* the observability agent of the tool is in the result
ObservabilityEnabled ==
    IF tool = "detector" THEN "observability-agent" \in Elems(enabled_agents)
    ELSE "Observability Agent" \in Elems(recommended.optional)

\* C7: for both tools the observability agent is enabled when the patterns
\* hold both "api" and "docker", and is disabled when either is missing.
C7_ObservabilityFromApiAndDocker ==
    (DetectorReturned \/ CopilotReturned) =>
        (ObservabilityEnabled <=> {"api", "docker"} \subseteq detected_patterns)

\* package.json in the root loads and declares a dependency whose name
\* contains "react"
DeclaresReactDependency(t) ==
    /\ CanLoadJson(t, "package.json")
    /\ \E dep \in JsonDeps(t, "package.json") : Contains("react", dep)

\* C8: a dependency whose name contains "react" puts the React tag among
\* the frameworks, and with the React tag among the frameworks the
\* frontend agent is enabled, for both tools.
C8_ReactEnablesFrontendAgent ==
    /\ DetectorReturned =>
           /\ DeclaresReactDependency(tree) => "react" \in detected_frameworks
           /\ "react" \in detected_frameworks =>
                  "ux-accessibility-agent" \in Elems(enabled_agents)
    /\ CopilotReturned =>
           /\ DeclaresReactDependency(tree) => "React" \in detected_frameworks
           /\ "React" \in detected_frameworks =>
                  "UX/Accessibility Agent" \in Elems(recommended.optional)

\* the React tag derived from the dependency "preact", no frontend file in
\* the tree, and the frontend agent enabled
C8_Witness ==
    /\ DetectorReturned
    /\ DeclaresReactDependency(tree)
    /\ "react" \in detected_frameworks
    /\ "frontend" \notin detected_patterns
    /\ "ux-accessibility-agent" \in Elems(enabled_agents)

\* C9: with a root that is missing or is no directory, a run ends in an
\* error to the caller and no collector has executed.
C9_InvalidRootFailsFast ==
    (tree.kind # "dir" /\ runs > 0) =>
        /\ collectors_run = <<>>
        /\ pc = "idle"
        /\ outcome = "raised"

\* C10: the run over a tree with a file that cannot be opened or decoded
\* completes, and that file adds exactly 1 to file_count and 0 to
\* line_count.
C10_BadFileCountedWithoutLines ==
    (tool = "detector" /\ pc = "idle" /\ runs = 1 /\ tree.kind = "dir") =>
        /\ outcome = "returned"
        /\ \A f \in tree.files :
               (f.mode = "denied" \/ ~DecodesStrictly(f.bytes)) =>
                   \E rest \in {[tree EXCEPT !.files = @ \ {f}]} :
                       /\ file_count = Detector_structure_files(repo_path, rest) + 1
                       /\ line_count = Detector_structure_lines(repo_path, rest)

\* C11: every regular file below the root whose path relative to the root
\* carries none of the ignored substrings is counted exactly once in
\* file_count and no other file is counted, wherever the root itself lies.
C11_CountedByRelativePath ==
    (DetectorReturned /\ runs = 1) =>
        file_count = CountEntries(tree,
                         {p \in Entries(tree) :
                             IsFile(tree, p) /\ ~should_ignore(JoinPath(p))})

\* C12: over a root that holds exactly one .py file, exactly one .go file
\* and a requirements.txt listing flask, the first run of the collectors
\* leaves the histogram {Python: 1, Go: 1}, "flask" among the frameworks and
\* a file_count of at least 2.
C12_PolyglotScenario ==
    LET named(ext) == {f \in tree.files : EndsWith(f.path[Len(f.path)], ext)}
        manifest == {f \in tree.files :
                        /\ f.path = <<"requirements.txt">>
                        /\ f.mode = "ok"
                        /\ Contains("flask", Lower(f.bytes))}
    IN  (/\ tool = "detector"
         /\ runs = 1
         /\ tree.kind = "dir"
         /\ Cardinality(named(".py")) + tree.bulk = 1
         /\ Cardinality(named(".go")) = 1
         /\ manifest # {})
        => /\ detected_languages = [lang \in {"Python", "Go"} |-> 1]
           /\ "flask" \in detected_frameworks
           /\ file_count >= 2

\* C13: when every file of the repository lies on an ignored path, the
\* language histogram stays empty, and no rule is satisfied by a file
\* pattern, a file type or a required file: the agents enabled are those
\* the same fields enable over a root without files.
C13_IgnoredFilesInvisible ==
    (/\ tool = "detector"
     /\ runs = 1
     /\ tree.kind = "dir"
     /\ tree.bulk = 0
     /\ tree.files # {}
     /\ \A f \in tree.files : should_ignore(JoinPath(f.path)))
    => /\ detected_languages = <<>>
       /\ pc = "idle" =>
              enabled_agents =
                  Detector_enabled_agents(
                      Detector_decisions([tree EXCEPT !.files = {}], detected_frameworks,
                          detected_patterns, file_count, contributors))

\* C14: a run only reads the repository: no step of detect() or analyze()
\* changes the files and directories below the root or their contents.
C14_RunsOnlyRead == [][tree' = tree]_vars

\* C15: when the history query fails (git is absent, the call times out,
\* git exits with a non-zero status, or the root is no directory to run it
\* in), the contributor count stays 0, _detect_git_activity returns to
\* detect(), and the rules are evaluated and a decision record is returned.
C15_GitFailureTolerated ==
    (tool = "detector" /\ (GitRaises(tree, git) \/ git.result = "exit")) =>
        /\ contributors = 0
        /\ runs > 0 =>
               /\ collectors_run[Len(collectors_run)] = "_detect_git_activity"
               /\ pc \in {"evaluate", "idle", "reported"}
        /\ DetectorReturned =>
               /\ outcome = "returned"
               /\ enabled_agents = Detector_enabled_agents(
                      Detector_decisions(tree, detected_frameworks, detected_patterns,
                          file_count, 0))
               /\ "devex-agent" \notin Elems(enabled_agents)

\* detect() has returned a record with optional agents in a directory that
\* is no git repository
C15_Witness ==
    /\ DetectorReturned
    /\ git.result = "exit"
    /\ tree.kind = "dir"
    /\ contributors = 0
    /\ Len(enabled_agents) > Len(DEFAULT_AGENTS)

\* the keys of the checks dict of _detect_frameworks
ManifestNames ==
    {"package.json", "requirements.txt", "Gemfile", "go.mod", "Cargo.toml", "composer.json"}

\* a manifest whose reader raises: open() fails, the bytes are no text, or
\* json.load fails
FailsToRead(t, f) ==
    /\ Len(f.path) = 1
    /\ f.path[1] \in ManifestNames
    /\ \/ ~CanReadText(t, f.path[1])
       \/ f.path[1] \in {"package.json", "composer.json"} /\ ~f.json.valid

\* the same manifest declaring no dependency
Blank(f) ==
    IF f.path[1] \in {"package.json", "composer.json"}
    THEN File(f.path, "ok", "{}", [valid |-> TRUE, deps |-> {}, dev |-> {}])
    ELSE File(f.path, "ok", "", NoJson)

\* C16: no manifest reader raises to _detect_frameworks: after the first
\* run the detected frameworks are those of the repository in which every
\* manifest that cannot be opened, decoded or parsed declares no dependency,
\* and those of the repository without these manifests; the manifests that
\* can be read are read.
C16_BadManifestAddsNothing ==
    (tool = "detector" /\ runs = 1) =>
        /\ detected_frameworks =
               Detector_detect_frameworks(
                   [tree EXCEPT !.files =
                       {IF FailsToRead(tree, f) THEN Blank(f) ELSE f : f \in tree.files}], {})
        /\ detected_frameworks =
               Detector_detect_frameworks(
                   [tree EXCEPT !.files = {f \in tree.files : ~FailsToRead(tree, f)}], {})

\* the collectors have run over a package.json that is no JSON and the
\* requirements manifest next to it was read
C16_Witness ==
    /\ tool = "detector"
    /\ runs = 1
    /\ \E f \in tree.files : f.path = <<"package.json">> /\ FailsToRead(tree, f)
    /\ "flask" \in detected_frameworks

\* C17: in the result of detect() an agent has a reason exactly when it is
\* enabled: an optional agent whose rule has no satisfied predicate is
\* neither enabled nor given a reason, and the reason of every enabled
\* agent is a non-empty string.
C17_ReasonIffEnabled ==
    DetectorReturned =>
        /\ DOMAIN reasons = Elems(enabled_agents)
        /\ Cardinality(Elems(enabled_agents)) = Len(enabled_agents)
        /\ \A a \in Elems(enabled_agents) : reasons[a] # ""
        /\ \A a \in Elems(OPTIONAL_AGENTS) :
               ~Decision(a, tree, detected_frameworks, detected_patterns,
                         file_count, contributors).enable
                   => a \notin Elems(enabled_agents) /\ a \notin DOMAIN reasons

\* a result in which some optional agents are enabled and others are not
C17_Witness ==
    /\ DetectorReturned
    /\ Len(enabled_agents) > Len(DEFAULT_AGENTS)
    /\ \E a \in Elems(OPTIONAL_AGENTS) : a \notin Elems(enabled_agents)
    /\ \E a \in Elems(OPTIONAL_AGENTS) : a \in DOMAIN reasons

\* the order in which _should_enable_agent tries the predicates of a rule
PredicateOrder ==
    <<"file_patterns", "file_types", "files", "frameworks", "keywords",
      "tech_indicators", "min_files", "min_contributors", "indicators">>

\* whether the predicate `kind` of a rule is satisfied
PredicateHolds(kind, triggers, t, fws, pats, files, contribs) ==
    CASE kind = "file_patterns" -> \E p \in Elems(triggers.file_patterns) : Glob(t, p) # {}
      [] kind = "file_types" -> \E e \in Elems(triggers.file_types) : RGlob(t, "*" \o e) # {}
      [] kind = "files" ->
           \E f \in Elems(triggers.files) : Exists(t, f) \/ RGlob(t, f) # {}
      [] kind = "frameworks" -> Elems(triggers.frameworks) \cap fws # {}
      [] kind = "keywords" ->
           \E w \in Elems(triggers.keywords) : Contains(w, Lower(StrOfSet(fws)))
      [] kind = "tech_indicators" ->
           \E w \in Elems(triggers.tech_indicators) : Contains(w, Lower(StrOfSet(fws)))
      [] kind = "min_files" -> files >= triggers.min_files
      [] kind = "min_contributors" -> contribs >= triggers.min_contributors
      [] kind = "indicators" ->
           \/ /\ "production_code" \in Elems(triggers.indicators)
              /\ Exists(t, "Dockerfile") \/ Exists(t, ".github/workflows")
           \/ /\ Elems(triggers.indicators) \cap {"customer_facing", "public_api"} # {}
              /\ "api" \in pats
           \/ /\ "multiple_contributors" \in Elems(triggers.indicators)
              /\ contribs >= 3

\* the reason _should_enable_agent returns with the predicate `kind`
PredicateReason(kind, triggers) ==
    IF kind = "min_files" THEN "Large codebase detected (refactoring recommended)"
    ELSE triggers.description

EarlierPredicateHolds(triggers) ==
    \E k \in 1..4 :
        /\ PredicateOrder[k] \in triggers.keys
        /\ PredicateHolds(PredicateOrder[k], triggers, tree, detected_frameworks,
               detected_patterns, file_count, contributors)

\* whether a predicate of the rule that is tried after the tech indicators
\* is satisfied
LaterPredicateHolds(triggers) ==
    \E k \in 7..9 :
        /\ PredicateOrder[k] \in triggers.keys
        /\ PredicateHolds(PredicateOrder[k], triggers, tree, detected_frameworks,
               detected_patterns, file_count, contributors)

\* the keywords and tech indicators a rule declares
DeclaredKeywords(triggers) ==
    (IF "keywords" \in triggers.keys THEN Elems(triggers.keywords) ELSE {})
        \cup (IF "tech_indicators" \in triggers.keys
              THEN Elems(triggers.tech_indicators) ELSE {})

C20_ResearchAgentNeedsMlFramework ==
    (DetectorReturned /\ "research-agent" \in Elems(enabled_agents)) =>
        detected_frameworks \cap {"pytorch", "tensorflow", "transformers"} # {}

\* C21: when the history query succeeds, the contributor count is the
\* number of distinct author e-mail addresses it lists; a query that
\* succeeds and lists nothing gives 0.
C21_ContributorsAreDistinctAuthors ==
    (tool = "detector" /\ runs > 0 /\ tree.kind = "dir" /\ git.result = "ok") =>
        contributors = Cardinality(Elems(git.commits))


\* C22: the refactor agent is enabled exactly for the snapshots with
\* file_count >= 50, by AgentDetector (refactor-agent) and by
\* CopilotProjectAnalyzer (Refactor Agent) alike.
C22_RefactorAgentFromFiftyFiles ==
    /\ DetectorReturned =>
           ("refactor-agent" \in Elems(enabled_agents) <=> file_count >= 50)
    /\ CopilotReturned =>
           ("Refactor Agent" \in Elems(recommended.optional) <=> file_count >= 50)


\* the table of the pattern collector of the tool at work
PatternTable ==
    IF tool = "detector" THEN Detector_patterns_to_check ELSE Copilot_patterns_to_check

\* C23: after the pattern collector has run, a tag is in the pattern set
\* exactly if one of its globs matches; the globs of a tag are evaluated in
\* list order up to the first that matches and none after it; tags outside
\* the table never appear, and a tag is decided by its own globs alone.
C23_TagIffOneOfItsGlobsMatches ==
    (runs > 0 /\ (tool = "detector" => pc = "idle")) =>
        /\ detected_patterns \subseteq {e[1] : e \in Elems(PatternTable)}
        /\ \A e \in Elems(PatternTable) :
               /\ e[1] \in detected_patterns <=>
                      \E i \in 1..Len(e[2]) : Glob(tree, e[2][i]) # {}
               /\ \A tried \in {PatternLoop(tree, e[2], 1).tried} :
                      /\ Len(tried) <= Len(e[2])
                      /\ tried = SubSeq(e[2], 1, Len(tried))
                      /\ \A k \in 1..(Len(tried) - 1) : Glob(tree, tried[k]) = {}
                      /\ Len(tried) < Len(e[2]) => Glob(tree, tried[Len(tried)]) # {}
                      /\ (\A i \in 1..Len(e[2]) : Glob(tree, e[2][i]) = {})
                             => tried = e[2]

\* a run over a tree that only the second glob of "api" and the third of
\* "ml" match, with the other tags left out
C23_Witness ==
    /\ DetectorReturned
    /\ tree.files = LaterGlobFiles
    /\ detected_patterns = {"api", "ml"}
    /\ PatternLoop(tree, Detector_patterns_to_check[1][2], 1).tried
           = <<"*/api/*", "*/routes/*">>


\* C24: after CopilotProjectAnalyzer._detect_languages every language of
\* the histogram has a count of at least 1, a language is present exactly
\* if a file of one of its extensions exists, and file_count is the sum of
\* the counts; files with other extensions add to neither.
C24_HistogramSumsToFileCount ==
    (tool = "copilot" /\ runs > 0) =>
        /\ \A lang \in DOMAIN detected_languages : detected_languages[lang] >= 1
        /\ \A e \in Elems(Copilot_extensions) :
               e[2] \in DOMAIN detected_languages <=> RGlob(tree, "*" \o e[1]) # {}
        /\ DOMAIN detected_languages \subseteq {e[2] : e \in Elems(Copilot_extensions)}
        /\ file_count = SumOver(DOMAIN detected_languages, detected_languages)

\* one run over a Python file, a Go file and a requirements.txt: two
\* languages of one file each, the third file in neither number
C24_Witness ==
    /\ CopilotReturned
    /\ runs = 1
    /\ PolyglotFiles \subseteq tree.files
    /\ detected_languages = [lang \in {"Python", "Go"} |-> 1]
    /\ file_count = 2


\* the lines of a report that follow the heading up to the next empty line;
\* none when the heading is missing
GroupAfter(lines, heading) ==
    IF \A i \in 1..Len(lines) : lines[i] # heading THEN <<>>
    ELSE LET h == CHOOSE i \in 1..Len(lines) :
                      lines[i] = heading /\ \A j \in 1..(i - 1) : lines[j] # heading
             e == CHOOSE i \in (h + 1)..Len(lines) :
                      lines[i] = "" /\ \A j \in (h + 1)..(i - 1) : lines[j] # ""
         IN  SubSeq(lines, h + 1, e - 1)

\* the agents a group of report lines lists behind the mark, in order
AgentsListed(group, mark) ==
    LET Marked(line) ==
            /\ Len(line) > Len(mark) + 5
            /\ SubSeq(line, 1, Len(mark) + 5) = "    " \o mark \o " "
        kept == SelectSeq(group, Marked)
    IN  [i \in 1..Len(kept) |-> SubSeq(kept[i], Len(mark) + 6, Len(kept[i]))]

\* C25: in the report every optional agent of the rule table stands in
\* exactly one of two groups: once in the enabled group, followed by its
\* reason, if it is in enabled_agents, otherwise once in the group of the
\* agents to consider, which is in sorted order; the default group lists
\* the six default agents.
C25_ReportGroupsEveryOptionalAgent ==
    (tool = "detector" /\ pc = "reported") =>
        LET default == GroupAfter(report, "  Default Agents (always enabled):")
            enabled == GroupAfter(report, "  Optional Agents (detected):")
            considered == AgentsListed(
                GroupAfter(report, "  Agents you might want to consider:"), Circle)
        IN  /\ AgentsListed(default, Check) = DEFAULT_AGENTS
            /\ Len(default) = Len(DEFAULT_AGENTS)
            /\ \A a \in Elems(OPTIONAL_AGENTS) :
                   LET shown == {i \in 1..Len(enabled) : enabled[i] = "    " \o Check \o " " \o a}
                       left == {i \in 1..Len(considered) : considered[i] = a}
                   IN  IF a \in Elems(enabled_agents)
                       THEN /\ Cardinality(shown) = 1
                            /\ left = {}
                            /\ \A i \in shown :
                                   /\ i < Len(enabled)
                                   /\ enabled[i + 1] = "       " \o Arrow \o " " \o reasons[a]
                       ELSE /\ shown = {}
                            /\ Cardinality(left) = 1
            /\ \A i \in 1..(Len(considered) - 1) : StrLess(considered[i], considered[i + 1])

\* a report of a run that enabled the refactor and the dependency agent and
\* left the performance agent out
C25_Witness ==
    /\ tool = "detector"
    /\ pc = "reported"
    /\ {"refactor-agent", "dependency-agent"} \subseteq Elems(enabled_agents)
    /\ "performance-agent" \notin Elems(enabled_agents)
    /\ Len(report) > 0


\* run() has just called the step of this name
JustCalled(name) == tool = "installer" /\ last.name = name

\* C26: whenever the step "Installing agent configurations" is called, the
\* list of agents it installs holds every default agent, also after the
\* detection step raised and the user chose to continue.
C26_InstallStepHasDefaultAgents ==
    JustCalled("Installing agent configurations") =>
        Elems(Installer_DEFAULT_AGENTS) \subseteq Elems(AGENTS)


\* C27 as stated: after a step raised, every answer other than "y" ends
\* run() with False.
C27_OnlyLowerCaseYContinues ==
    (tool = "installer" /\ last.raised /\ last.answer \in Answers \ {"y"}) =>
        run_result = "False"

\* C27: run() calls its 12 steps in the listed order, each at most once;
\* after a step raised and the user answered, run() goes on to the next
\* step if the answer in lower case is "y", and otherwise returns False
\* without calling another step; it returns True exactly when all 12 steps
\* were called and no answer ended it.
C27_StepsInOrderUntilAborted ==
    tool = "installer" =>
        /\ Len(executed) <= Len(steps)
        /\ executed = SubSeq(steps, 1, Len(executed))
        /\ (last.raised /\ last.answer \in Answers) =>
               IF Lower(last.answer) = "y"
               THEN /\ run_result \in {"running", "True"}
                    /\ step = Len(executed) + 1
               ELSE /\ run_result = "False"
                    /\ step = Len(executed)
        /\ run_result = "running" =>
               /\ step = Len(executed) + 1
               /\ step <= Len(steps)
               /\ ENABLED InstallerNext
        /\ run_result = "False" => (last.raised /\ Lower(last.answer) # "y")
        /\ run_result = "True" <=>
               /\ executed = steps
               /\ last.raised => (last.answer \in Answers /\ Lower(last.answer) = "y")

\* a step raised, the user typed "Y", and run() is at the next step
C27_Witness ==
    /\ tool = "installer"
    /\ last.raised
    /\ last.name = "Generating Claude configuration"
    /\ last.answer = "Y"
    /\ run_result = "running"
    /\ step = 9


\* detect_agents has just returned (the confirmation was read)
Asked ==
    /\ JustCalled("Detecting codebase and required agents")
    /\ ~last.raised

\* C28 as stated: after every confirmation answer other than "y", AGENTS and
\* enabled_agents are exactly the six default agents.
C28_DefaultsUnlessLowerCaseY ==
    (Asked /\ response # "y") =>
        /\ AGENTS = Installer_DEFAULT_AGENTS
        /\ installer_enabled_agents = Installer_DEFAULT_AGENTS

\* C28: when detect_agents returns, AGENTS and enabled_agents both equal the
\* detector's enabled_agents if the confirmation answer, stripped of
\* surrounding white space and put in lower case, is "y", and both are
\* exactly the six default agents after every other answer.
C28_ConfirmationSelectsAgents ==
    Asked =>
        IF Strip(Lower(response)) = "y"
        THEN /\ AGENTS = enabled_agents
             /\ installer_enabled_agents = enabled_agents
        ELSE /\ AGENTS = Installer_DEFAULT_AGENTS
             /\ installer_enabled_agents = Installer_DEFAULT_AGENTS
             /\ Len(AGENTS) = 6

\* the detector enabled an optional agent and the user declined with "n"
C28_Witness ==
    /\ Asked
    /\ response = "n"
    /\ Len(enabled_agents) > 6
    /\ AGENTS = Installer_DEFAULT_AGENTS
    /\ installer_enabled_agents = Installer_DEFAULT_AGENTS


\* in `after`, the backup file holds what CLAUDE.md held in `before`
BackupHolds(before, after) ==
    /\ IsFile(before, <<"CLAUDE.md">>)
    /\ IsFile(after, <<backup_name(timestamp)>>)
    /\ FileAt(after, <<backup_name(timestamp)>>).bytes
           = FileAt(before, <<"CLAUDE.md">>).bytes

\* C30 as stated: whenever CLAUDE.md exists before create_claude_config,
\* the backup file holds its previous content after the step.
C30_BackupWheneverClaudeMdExists ==
    [][(At(8) /\ Exists(tree, "CLAUDE.md")) => BackupHolds(tree, tree')]_vars

\* C30: create_claude_config never loses an existing CLAUDE.md.  If
\* CLAUDE.md is a regular file that can be read, then after the step the
\* backup CLAUDE.md.backup.<timestamp> holds its previous content (the copy
\* is made before CLAUDE.md is overwritten) and CLAUDE.md holds the generated
\* text; if CLAUDE.md exists but cannot be copied (a directory, a file that
\* may not be read), the step raises and leaves CLAUDE.md and the rest of
\* the repository as they were, without a backup.
C30_ClaudeMdBackedUpOrUntouched ==
    [][(At(8) /\ Exists(tree, "CLAUDE.md")) =>
          IF IsFile(tree, <<"CLAUDE.md">>) /\ FileAt(tree, <<"CLAUDE.md">>).mode = "ok"
          THEN /\ BackupHolds(tree, tree')
               /\ FileAt(tree', <<"CLAUDE.md">>).bytes = claude_content
               /\ ~last'.raised
          ELSE /\ tree' = tree
               /\ ~Exists(tree', backup_name(timestamp))
               /\ last'.raised]_vars

\* the user's CLAUDE.md has been replaced and its text is in the backup
C30_Witness ==
    /\ JustCalled("Generating Claude configuration")
    /\ ~last.raised
    /\ IsFile(tree, <<backup_name(timestamp)>>)
    /\ FileAt(tree, <<backup_name(timestamp)>>).bytes = "# mine\n"
    /\ FileAt(tree, <<"CLAUDE.md">>).bytes = claude_content


\* s.startswith(prefix)
StartsWith(s, prefix) ==
    /\ Len(prefix) <= Len(s)
    /\ SubSeq(s, 1, Len(prefix)) = prefix

\* C29: update_gitignore is idempotent and keeps what was there: a call
\* after the first leaves the repository as the first call left it, and
\* the content a .gitignore held before a call is a prefix of the content
\* it holds after the call.
C29_UpdateGitignoreIdempotentKeepingContent ==
    [][tool = "apm" =>
          /\ runs >= 1 => tree' = tree
          /\ IsFile(tree, <<".gitignore">>) =>
                 /\ IsFile(tree', <<".gitignore">>)
                 /\ StartsWith(FileAt(tree', <<".gitignore">>).bytes,
                               FileAt(tree, <<".gitignore">>).bytes)
          /\ {f \in tree'.files : f.path # <<".gitignore">>}
                 = {f \in tree.files : f.path # <<".gitignore">>}]_vars

\* update_gitignore was applied twice to a .gitignore that only held a near
\* miss of the marker: the entries were appended once
C29_Witness ==
    /\ tool = "apm"
    /\ runs = 2
    /\ outcome = "returned"
    /\ IsFile(tree, <<".gitignore">>)
    /\ FileAt(tree, <<".gitignore">>).bytes = ".copilot\nnode_modules/" \o gitignore_entries

====
